---- MODULE Spec2Model ----
(***************************************************************************)
(* The Playwright MCP server of src/src/index.ts: the recording session    *)
(* (recordedActions, isRecording, recordingName), the BrowserManager, the  *)
(* CallTool request handler with one action per tool, and the three test   *)
(* generators.                                                             *)
(*                                                                         *)
(* Text is a sequence of lines, each line the tuple of the pieces of its   *)
(* template literal (the literal parts and the interpolated values); every *)
(* line stands for the line followed by "\n".  A name is a sequence of     *)
(* one-character strings, so that the regular-expression replacement of    *)
(* generatePythonTest is computed character by character.                  *)
(***************************************************************************)
EXTENDS Integers, Sequences, FiniteSets, TLC

\* ------------------------------------------------------------------ bounds
\* Requests served in one behaviour of Spec (every tool).
MaxClock == 3
\* Requests served in one behaviour of SessionSpec (a recording session).
MaxSession == 5
\* recordAction calls in one behaviour of GenSpec (the length of the log rendered).
MaxLen == 3

\* ------------------------------------------------------------------ inputs
Urls == {"https://a.test"}
Selectors == {"#go"}
Values == {"v"}
Keys == {"Enter"}
ShotNames == {"shot"}
Names == {<<>>, <<"s", "1">>, <<"a", " ", "b">>}
FileNames == {"out"}
Frameworks == {"playwright", "puppeteer", "selenium"}
Languages == {"typescript", "javascript", "python"}
AlphaNum == {"a", "b", "s", "1"}

NoHandle == 0
\* The requests that may be in progress at once, and a slot without one.
Slots == {1, 2}
Idle == [pc |-> "idle"]
Cwd == "cwd"

VARIABLES recordedActions, isRecording, recordingName,  \* the recording session
          browser, context, page,       \* the fields of the BrowserManager
          dirExists, files,             \* generated-tests and the files in it
          clock,                        \* the time: one tick per request
          horizon,                      \* the time at which the observation ends
          calls,                        \* the awaited and fs calls of the latest request
          last,                         \* the response to the latest request
          started,                      \* history: the time of the latest record_start and
                                        \* the number of log entries it discarded
          found,                        \* history: what the latest request found
          owner,                        \* of the page held, the context it was made
                                        \* from; of the context held, its browser
          opened,                       \* the browsers, contexts and pages created
                                        \* since the latest playwright_close was
                                        \* called, and the browsers that run
          inflight                      \* the handlers suspended at an await, by slot

session == <<recordedActions, isRecording, recordingName>>
manager == <<browser, context, page>>
fs == <<dirExists, files>>
vars == <<recordedActions, isRecording, recordingName, browser, context, page,
          dirExists, files, clock, horizon, calls, last, started, found, owner,
          opened, inflight>>

\* ------------------------------------------------------------- recordAction
\* Date.now() while a request is served: requests are served at distinct times.
Now == clock + 1

recordActionAlways(action) ==
    Append(recordedActions, action @@ [timestamp |-> Now])

recordActionPrepend(action) ==
    IF isRecording
    THEN <<action @@ [timestamp |-> Now]>> \o recordedActions
    ELSE recordedActions

\* The value of recordedActions after recordAction(action).
recordAction(action) ==
    IF isRecording
    THEN Append(recordedActions, action @@ [timestamp |-> Now])
    ELSE recordedActions

\* ---------------------------------------------------------------- generators
Blank == <<>>

DefaultTestName == <<"r", "e", "c", "o", "r", "d", "e", "d", " ", "t", "e", "s", "t">>
DefaultPyName == <<"r", "e", "c", "o", "r", "d", "e", "d">>

\* name || fallback: the empty string is falsy.
OrElse(name, fallback) == IF name = <<>> THEN fallback ELSE name

SanitizeNothing(name) == name

\* name.replace(/[^a-zA-Z0-9]/g, "_")
Sanitize(name) ==
    [i \in 1..Len(name) |-> IF name[i] \in AlphaNum THEN name[i] ELSE "_"]

\* The statement generatePlaywrightTest's switch adds for one action.
PlaywrightStatement(action) ==
    CASE action.type = "navigate" ->
           << <<"  await page.goto('", action.url, "');">> >>
      [] action.type = "click" ->
           << <<"  await page.click('", action.selector, "');">> >>
      [] action.type = "fill" ->
           << <<"  await page.fill('", action.selector, "', '", action.value, "');">> >>
      [] action.type = "type" ->
           << <<"  await page.type('", action.selector, "', '", action.value, "');">> >>
      [] action.type = "press" ->
           << <<"  await page.keyboard.press('", action.key, "');">> >>
      [] action.type = "select" ->
           << <<"  await page.selectOption('", action.selector, "', '", action.value, "');">> >>
      [] action.type = "hover" ->
           << <<"  await page.hover('", action.selector, "');">> >>
      [] action.type = "check" ->
           << <<"  await page.check('", action.selector, "');">> >>
      [] action.type = "uncheck" ->
           << <<"  await page.uncheck('", action.selector, "');">> >>
      [] action.type = "waitForSelector" ->
           << <<"  await page.waitForSelector('", action.selector, "');">> >>
      [] action.type = "screenshot" ->
           << <<"  await page.screenshot({ path: '", action.value, "' });">> >>
      [] OTHER -> <<>>

PuppeteerStatementWithCheck(action) ==
    CASE action.type = "navigate" ->
           << <<"  await page.goto('", action.url, "');">> >>
      [] action.type \in {"click", "check", "uncheck"} ->
           << <<"  await page.click('", action.selector, "');">> >>
      [] action.type \in {"fill", "type"} ->
           << <<"  await page.type('", action.selector, "', '", action.value, "');">> >>
      [] action.type = "press" ->
           << <<"  await page.keyboard.press('", action.key, "');">> >>
      [] action.type = "select" ->
           << <<"  await page.select('", action.selector, "', '", action.value, "');">> >>
      [] action.type = "hover" ->
           << <<"  await page.hover('", action.selector, "');">> >>
      [] action.type = "waitForSelector" ->
           << <<"  await page.waitForSelector('", action.selector, "');">> >>
      [] action.type = "screenshot" ->
           << <<"  await page.screenshot({ path: '", action.value, "' });">> >>
      [] OTHER -> <<>>

\* The statement generatePuppeteerTest's switch adds for one action.
PuppeteerStatement(action) ==
    CASE action.type = "navigate" ->
           << <<"  await page.goto('", action.url, "');">> >>
      [] action.type = "click" ->
           << <<"  await page.click('", action.selector, "');">> >>
      [] action.type \in {"fill", "type"} ->
           << <<"  await page.type('", action.selector, "', '", action.value, "');">> >>
      [] action.type = "press" ->
           << <<"  await page.keyboard.press('", action.key, "');">> >>
      [] action.type = "select" ->
           << <<"  await page.select('", action.selector, "', '", action.value, "');">> >>
      [] action.type = "hover" ->
           << <<"  await page.hover('", action.selector, "');">> >>
      [] action.type = "waitForSelector" ->
           << <<"  await page.waitForSelector('", action.selector, "');">> >>
      [] action.type = "screenshot" ->
           << <<"  await page.screenshot({ path: '", action.value, "' });">> >>
      [] OTHER -> <<>>

\* The statement the sync_playwright branch of generatePythonTest adds.
PyPlaywrightStatement(action) ==
    CASE action.type = "navigate" ->
           << <<"        page.goto('", action.url, "')">> >>
      [] action.type = "click" ->
           << <<"        page.click('", action.selector, "')">> >>
      [] action.type = "fill" ->
           << <<"        page.fill('", action.selector, "', '", action.value, "')">> >>
      [] action.type = "type" ->
           << <<"        page.type('", action.selector, "', '", action.value, "')">> >>
      [] action.type = "press" ->
           << <<"        page.keyboard.press('", action.key, "')">> >>
      [] action.type = "select" ->
           << <<"        page.select_option('", action.selector, "', '", action.value, "')">> >>
      [] action.type = "hover" ->
           << <<"        page.hover('", action.selector, "')">> >>
      [] action.type = "waitForSelector" ->
           << <<"        page.wait_for_selector('", action.selector, "')">> >>
      [] action.type = "screenshot" ->
           << <<"        page.screenshot(path='", action.value, "')">> >>
      [] OTHER -> <<>>

PySeleniumStatementNoScreenshot(action) ==
    CASE action.type = "navigate" ->
           << <<"    driver.get('", action.url, "')">> >>
      [] action.type = "click" ->
           << <<"    driver.find_element(By.CSS_SELECTOR, '", action.selector, "').click()">> >>
      [] action.type \in {"fill", "type"} ->
           << <<"    driver.find_element(By.CSS_SELECTOR, '", action.selector,
                "').send_keys('", action.value, "')">> >>
      [] action.type = "waitForSelector" ->
           << <<"    WebDriverWait(driver, 10).until(EC.presence_of_element_located((By.CSS_SELECTOR, '",
                action.selector, "')))">> >>
      [] OTHER -> <<>>

\* The statement the Selenium branch of generatePythonTest adds.
PySeleniumStatement(action) ==
    CASE action.type = "navigate" ->
           << <<"    driver.get('", action.url, "')">> >>
      [] action.type = "click" ->
           << <<"    driver.find_element(By.CSS_SELECTOR, '", action.selector, "').click()">> >>
      [] action.type \in {"fill", "type"} ->
           << <<"    driver.find_element(By.CSS_SELECTOR, '", action.selector,
                "').send_keys('", action.value, "')">> >>
      [] action.type = "waitForSelector" ->
           << <<"    WebDriverWait(driver, 10).until(EC.presence_of_element_located((By.CSS_SELECTOR, '",
                action.selector, "')))">> >>
      [] action.type = "screenshot" ->
           << <<"    driver.save_screenshot('", action.value, "')">> >>
      [] OTHER -> <<>>

PlaywrightHead(name, language) ==
    << <<IF language = "typescript"
         THEN "import { test, expect } from '@playwright/test';"
         ELSE "const { test, expect } = require('@playwright/test');">>,
       Blank,
       <<"test('", OrElse(name, DefaultTestName), "', async ({ page }) => {">> >>

PlaywrightTail == << <<"});">> >>

generatePlaywrightTestReversed(actions, name, language) ==
    LET testCode[i \in 0..Len(actions)] ==
            IF i = 0 THEN <<>>
            ELSE PlaywrightStatement(actions[i]) \o testCode[i - 1]
    IN  (PlaywrightHead(name, language) \o testCode[Len(actions)]) \o PlaywrightTail

\* generatePlaywrightTest(actions, language), reading recordingName = name.
generatePlaywrightTest(actions, name, language) ==
    LET testCode[i \in 0..Len(actions)] ==
            IF i = 0 THEN PlaywrightHead(name, language)
            ELSE testCode[i - 1] \o PlaywrightStatement(actions[i])
    IN  testCode[Len(actions)] \o PlaywrightTail

PuppeteerHead(language) ==
    << <<IF language = "typescript"
         THEN "import puppeteer from 'puppeteer';"
         ELSE "const puppeteer = require('puppeteer');">>,
       Blank,
       <<"(async () => {">>,
       <<"  const browser = await puppeteer.launch();">>,
       <<"  const page = await browser.newPage();">>,
       Blank >>

PuppeteerTail == << Blank, <<"  await browser.close();">>, <<"})();">> >>

\* generatePuppeteerTest(actions, language)
generatePuppeteerTest(actions, language) ==
    LET testCode[i \in 0..Len(actions)] ==
            IF i = 0 THEN PuppeteerHead(language)
            ELSE testCode[i - 1] \o PuppeteerStatement(actions[i])
    IN  testCode[Len(actions)] \o PuppeteerTail

PyPlaywrightHead(name) ==
    << <<"from playwright.sync_api import sync_playwright">>,
       Blank,
       <<"def test_", OrElse(Sanitize(name), DefaultPyName), "():">>,
       <<"    with sync_playwright() as p:">>,
       <<"        browser = p.chromium.launch()">>,
       <<"        page = browser.new_page()">>,
       Blank >>

PyPlaywrightTail == << Blank, <<"        browser.close()">> >>

PySeleniumHead(name) ==
    << <<"from selenium import webdriver">>,
       <<"from selenium.webdriver.common.by import By">>,
       <<"from selenium.webdriver.support.ui import WebDriverWait">>,
       <<"from selenium.webdriver.support import expected_conditions as EC">>,
       Blank,
       <<"def test_", OrElse(Sanitize(name), DefaultPyName), "():">>,
       <<"    driver = webdriver.Chrome()">>,
       Blank >>

PySeleniumTail == << Blank, <<"    driver.quit()">> >>

\* generatePythonTest(actions, framework), reading recordingName = name.
generatePythonTest(actions, name, framework) ==
    IF framework = "playwright"
    THEN LET testCode[i \in 0..Len(actions)] ==
                 IF i = 0 THEN PyPlaywrightHead(name)
                 ELSE testCode[i - 1] \o PyPlaywrightStatement(actions[i])
         IN  testCode[Len(actions)] \o PyPlaywrightTail
    ELSE LET testCode[i \in 0..Len(actions)] ==
                 IF i = 0 THEN PySeleniumHead(name)
                 ELSE testCode[i - 1] \o PySeleniumStatement(actions[i])
         IN  testCode[Len(actions)] \o PySeleniumTail

GenerateDispatchFrameworkFirst(actions, name, framework, language) ==
    IF framework = "playwright"
    THEN IF language = "python" THEN generatePlaywrightTest(actions, name, "javascript")
         ELSE generatePlaywrightTest(actions, name, language)
    ELSE IF framework = "puppeteer"
    THEN IF language = "python" THEN generatePuppeteerTest(actions, "javascript")
         ELSE generatePuppeteerTest(actions, language)
    ELSE IF language = "python" THEN generatePythonTest(actions, name, framework)
    ELSE <<>>

\* A dispatch whose last branch would take every framework that is left.
GenerateDispatchLastBranchOpen(actions, name, framework, language) ==
    IF language = "python" THEN generatePythonTest(actions, name, framework)
    ELSE IF framework = "playwright" THEN generatePlaywrightTest(actions, name, language)
    ELSE generatePuppeteerTest(actions, language)

\* The dispatch of the playwright_generate_test handler: testCode starts as
\* the empty string and is assigned by the first branch that matches.
GenerateDispatch(actions, name, framework, language) ==
    IF language = "python" THEN generatePythonTest(actions, name, framework)
    ELSE IF framework = "playwright" THEN generatePlaywrightTest(actions, name, language)
    ELSE IF framework = "puppeteer" THEN generatePuppeteerTest(actions, language)
    ELSE <<>>

\* ------------------------------------------------------------ BrowserManager
\* Which awaited call of a handler throws, if any.
BrowserFaults == {"none", "launch", "newContext", "newPage", "operation"}
CloseFaults == {"none", "page.close", "context.close", "browser.close"}
WriteFaults == {"none", "mkdirSync", "writeFileSync"}

\* The fields of the BrowserManager as a request finds them; thrown and calls
\* follow the request: whether a call has thrown, and the calls made so far.
Manager ==
    [browser |-> browser, context |-> context, page |-> page,
     thrown |-> FALSE, calls |-> <<>>]

\* A handle no earlier request created.
FreshHandle == Now

\* m after the call `call`, which throws or assigns `field`.
Called(m, call, throws, field, value) ==
    IF throws
    THEN [m EXCEPT !.thrown = TRUE,
                   !.calls = Append(@, [call |-> call, threw |-> TRUE])]
    ELSE [m EXCEPT ![field] = value,
                   !.calls = Append(@, [call |-> call, threw |-> FALSE])]

Threw(cs) == \E i \in 1..Len(cs) : cs[i].threw

\* BrowserManager.ensureBrowser on the fields m; fault names the call that throws.
ensureBrowser(m, fault) ==
    IF m.browser = NoHandle
    THEN Called(m, "chromium.launch", fault = "launch", "browser", FreshHandle)
    ELSE m

\* BrowserManager.ensureContext
ensureContext(m, fault) ==
    IF m.context = NoHandle
    THEN LET m1 == ensureBrowser(m, fault)
         IN  IF m1.thrown THEN m1
             ELSE Called(m1, "browser.newContext", fault = "newContext",
                         "context", FreshHandle)
    ELSE m

ensurePageAlwaysNew(m, fault) ==
    LET m1 == ensureContext(m, fault)
    IN  IF m1.thrown THEN m1
        ELSE Called(m1, "context.newPage", fault = "newPage", "page", FreshHandle)

\* BrowserManager.ensurePage
ensurePage(m, fault) ==
    IF m.page = NoHandle
    THEN LET m1 == ensureContext(m, fault)
         IN  IF m1.thrown THEN m1
             ELSE Called(m1, "context.newPage", fault = "newPage", "page", FreshHandle)
    ELSE m

\* A closeBrowser that would let go of every handle, whatever its calls did.
closeBrowserReleasesAll(m, fault) ==
    LET m1 == IF m.page # NoHandle
              THEN Called(m, "page.close", fault = "page.close", "page", NoHandle)
              ELSE m
        m2 == IF ~m1.thrown /\ m1.context # NoHandle
              THEN Called(m1, "context.close", fault = "context.close",
                          "context", NoHandle)
              ELSE m1
        m3 == IF ~m2.thrown /\ m2.browser # NoHandle
              THEN Called(m2, "browser.close", fault = "browser.close", "browser", NoHandle)
              ELSE m2
    IN  [m3 EXCEPT !.page = NoHandle, !.context = NoHandle, !.browser = NoHandle]

\* BrowserManager.closeBrowser
closeBrowser(m, fault) ==
    LET m1 == IF m.page # NoHandle
              THEN Called(m, "page.close", fault = "page.close", "page", NoHandle)
              ELSE m
        m2 == IF ~m1.thrown /\ m1.context # NoHandle
              THEN Called(m1, "context.close", fault = "context.close",
                          "context", NoHandle)
              ELSE m1
    IN  IF ~m2.thrown /\ m2.browser # NoHandle
        THEN Called(m2, "browser.close", fault = "browser.close", "browser", NoHandle)
        ELSE m2

\* Nothing was created and no browser runs.
NothingOpened == [browser |-> 0, context |-> 0, page |-> 0, running |-> {}]

\* The number of calls of `call` among cs that returned.
Returned(cs, call) ==
    Cardinality({i \in 1..Len(cs) : cs[i].call = call /\ ~cs[i].threw})

\* `opened` after the calls cs of ensurePage, b being the browser a
\* chromium.launch among them returned.
Opened(cs, b) ==
    [browser |-> opened.browser + Returned(cs, "chromium.launch"),
     context |-> opened.context + Returned(cs, "browser.newContext"),
     page |-> opened.page + Returned(cs, "context.newPage"),
     running |-> IF Returned(cs, "chromium.launch") > 0
                 THEN opened.running \cup {b} ELSE opened.running]

\* `opened` after playwright_close was called and made the calls cs, b being
\* the browser a browser.close among them was called on.
Closed(cs, b) ==
    [NothingOpened EXCEPT
        !.running = IF Returned(cs, "browser.close") > 0
                    THEN opened.running \ {b} ELSE opened.running]

\* The fields of the BrowserManager become those of m.
SetManager(m) ==
    /\ browser' = m.browser
    /\ context' = m.context
    /\ page' = m.page
    /\ owner' = [page |-> IF m.page = page THEN owner.page
                          ELSE IF m.page = NoHandle THEN NoHandle ELSE m.context,
                 context |-> IF m.context = context THEN owner.context
                             ELSE IF m.context = NoHandle THEN NoHandle ELSE m.browser]

\* ----------------------------------------------------------- CallTool handler
\* What a request finds: isRecording, the length of the log, the number of
\* things the request before it closed if that was a playwright_close that
\* returned, and the framework and language of the request before it if that
\* was a playwright_generate_test that wrote its file.
Found ==
    [active |-> isRecording, count |-> Len(recordedActions),
     closed |-> IF last.name = "playwright_close" /\ ~last.isError
                THEN Len(calls) ELSE 0,
     wrote |-> IF last.name = "playwright_generate_test" /\ ~last.isError
                  /\ calls # <<>>
               THEN <<last.arguments.framework, last.arguments.language>>
               ELSE <<>>]

\* A request is served: time has passed since the one before.
Serve ==
    /\ clock < horizon
    /\ clock' = clock + 1
    /\ found' = Found
    /\ UNCHANGED <<horizon, inflight>>

\* The value a handler returns: content text, isError unset.
Return(name, args, text) ==
    last' = [name |-> name, arguments |-> args, isError |-> FALSE, text |-> text]

CatchSwallows(name, args, errorMessage) ==
    last' = [name |-> name, arguments |-> args, isError |-> FALSE,
             text |-> << <<"Error: ", errorMessage>> >>]

\* The catch block of the CallTool handler.
Catch(name, args, errorMessage) ==
    last' = [name |-> name, arguments |-> args, isError |-> TRUE,
             text |-> << <<"Error: ", errorMessage>> >>]

PageToolRecordsFirst(name, args, op, fault, recording, action, text) ==
    LET m == ensurePage(Manager, fault)
        m1 == IF m.thrown THEN m ELSE Called(m, op, fault = "operation", "thrown", FALSE)
    IN  /\ Serve
        /\ SetManager(m1)
        /\ opened' = Opened(m1.calls, m1.browser)
        /\ calls' = m1.calls
        /\ recordedActions' = IF recording THEN recordAction(action) ELSE recordedActions
        /\ IF m1.thrown
           THEN Catch(name, args, "browser operation failed")
           ELSE Return(name, args, text)
        /\ UNCHANGED <<isRecording, recordingName, dirExists, files, started>>

\* A handler that drives the page: ensurePage, then the page operation op;
\* when neither throws it records `action` (when the handler calls
\* recordAction: recording = TRUE) and returns `text`.
PageTool(name, args, op, fault, recording, action, text) ==
    LET m == ensurePage(Manager, fault)
        m1 == IF m.thrown THEN m ELSE Called(m, op, fault = "operation", "thrown", FALSE)
    IN  /\ Serve
        /\ SetManager(m1)
        /\ opened' = Opened(m1.calls, m1.browser)
        /\ calls' = m1.calls
        /\ IF m1.thrown
           THEN /\ Catch(name, args, "browser operation failed")
                /\ UNCHANGED recordedActions
           ELSE /\ recordedActions' = IF recording THEN recordAction(action)
                                      ELSE recordedActions
                /\ Return(name, args, text)
        /\ UNCHANGED <<isRecording, recordingName, dirExists, files, started>>

\* ------------------------------------------------------ tools that are recorded
\* The argument each handler passes to recordAction.
NavigateAction(url) ==
    [type |-> "navigate", url |-> url,
     description |-> <<"Navigate to ", url>>]

ScreenshotAction(name) ==
    [type |-> "screenshot", value |-> name,
     description |-> <<"Take screenshot">>]

ClickAction(selector) ==
    [type |-> "click", selector |-> selector,
     description |-> <<"Click ", selector>>]

FillAction(selector, value) ==
    [type |-> "fill", selector |-> selector, value |-> value,
     description |-> <<"Fill ", selector>>]

TypeActionTextField(selector, text) ==
    [type |-> "type", selector |-> selector, text |-> text,
     description |-> <<"Type into ", selector>>]

TypeAction(selector, text) ==
    [type |-> "type", selector |-> selector, value |-> text,
     description |-> <<"Type into ", selector>>]

HoverAction(selector) ==
    [type |-> "hover", selector |-> selector,
     description |-> <<"Hover ", selector>>]

SelectAction(selector, value) ==
    [type |-> "select", selector |-> selector, value |-> value,
     description |-> <<"Select option in ", selector>>]

WaitForSelectorAction(selector) ==
    [type |-> "waitForSelector", selector |-> selector,
     description |-> <<"Wait for ", selector>>]

PressAction(key) ==
    [type |-> "press", key |-> key,
     description |-> <<"Press ", key>>]

CheckboxActionAlwaysCheck(selector, checked) ==
    [type |-> "check", selector |-> selector,
     description |-> <<"Check ", selector>>]

CheckboxAction(selector, checked) ==
    IF checked
    THEN [type |-> "check", selector |-> selector,
          description |-> <<"Check ", selector>>]
    ELSE [type |-> "uncheck", selector |-> selector,
          description |-> <<"Uncheck ", selector>>]

playwright_navigate ==
    \E url \in Urls, fault \in BrowserFaults :
        PageTool("playwright_navigate", [url |-> url], "page.goto", fault, TRUE,
                 NavigateAction(url),
                 << <<"Successfully navigated to ", url>> >>)

playwright_screenshot ==
    \E name \in ShotNames, fault \in BrowserFaults :
        PageTool("playwright_screenshot", [name |-> name], "page.screenshot", fault, TRUE,
                 ScreenshotAction(name),
                 << <<"Screenshot captured: ", name>> >>)

playwright_click ==
    \E selector \in Selectors, fault \in BrowserFaults :
        PageTool("playwright_click", [selector |-> selector], "page.click", fault, TRUE,
                 ClickAction(selector),
                 << <<"Clicked element: ", selector>> >>)

playwright_fill ==
    \E selector \in Selectors, value \in Values, fault \in BrowserFaults :
        PageTool("playwright_fill", [selector |-> selector, value |-> value], "page.fill", fault, TRUE,
                 FillAction(selector, value),
                 << <<"Filled ", selector, " with: ", value>> >>)

playwright_type ==
    \E selector \in Selectors, text \in Values, fault \in BrowserFaults :
        PageTool("playwright_type", [selector |-> selector, text |-> text], "page.type", fault, TRUE,
                 TypeAction(selector, text),
                 << <<"Typed \"", text, "\" into ", selector>> >>)

playwright_hover ==
    \E selector \in Selectors, fault \in BrowserFaults :
        PageTool("playwright_hover", [selector |-> selector], "page.hover", fault, TRUE,
                 HoverAction(selector),
                 << <<"Hovered over: ", selector>> >>)

playwright_select ==
    \E selector \in Selectors, value \in Values, fault \in BrowserFaults :
        PageTool("playwright_select", [selector |-> selector, value |-> value], "page.selectOption", fault, TRUE,
                 SelectAction(selector, value),
                 << <<"Selected \"", value, "\" in ", selector>> >>)

playwright_wait_for_selector ==
    \E selector \in Selectors, fault \in BrowserFaults :
        PageTool("playwright_wait_for_selector", [selector |-> selector], "page.waitForSelector", fault, TRUE,
                 WaitForSelectorAction(selector),
                 << <<"Element appeared: ", selector>> >>)

playwright_press_key ==
    \E key \in Keys, fault \in BrowserFaults :
        PageTool("playwright_press_key", [key |-> key], "page.keyboard.press", fault, TRUE,
                 PressAction(key),
                 << <<"Pressed key: ", key>> >>)

playwright_checkbox ==
    \E selector \in Selectors, checked \in BOOLEAN, fault \in BrowserFaults :
        PageTool("playwright_checkbox", [selector |-> selector, checked |-> checked],
                 IF checked THEN "page.check" ELSE "page.uncheck",
                 fault, TRUE,
                 CheckboxAction(selector, checked),
                 << <<"Checkbox ", IF checked THEN "checked" ELSE "unchecked",
                      ": ", selector>> >>)

\* -------------------------------------------------- tools that are not recorded
\* What the page answers (text content, script result, attribute, title) is
\* the page's own and is written "(page)".
NotRecorded == [type |-> "none"]

playwright_extract_text ==
    \E selector \in Selectors, fault \in BrowserFaults :
        PageTool("playwright_extract_text", [selector |-> selector], "page.textContent", fault, FALSE,
                 NotRecorded, << <<"(page)">> >>)

playwright_evaluate ==
    \E fault \in BrowserFaults :
        PageTool("playwright_evaluate", [script |-> "1"], "page.evaluate", fault, FALSE,
                 NotRecorded, << <<"(page)">> >>)

playwright_get_attribute ==
    \E selector \in Selectors, fault \in BrowserFaults :
        PageTool("playwright_get_attribute", [selector |-> selector, attribute |-> "href"], "page.getAttribute",
                 fault, FALSE, NotRecorded, << <<"href", "=\"", "(page)", "\"">> >>)

playwright_go_back ==
    \E fault \in BrowserFaults :
        PageTool("playwright_go_back", <<>>, "page.goBack", fault, FALSE,
                 NotRecorded, << <<"Navigated back">> >>)

playwright_go_forward ==
    \E fault \in BrowserFaults :
        PageTool("playwright_go_forward", <<>>, "page.goForward", fault, FALSE,
                 NotRecorded, << <<"Navigated forward">> >>)

playwright_reload ==
    \E fault \in BrowserFaults :
        PageTool("playwright_reload", <<>>, "page.reload", fault, FALSE,
                 NotRecorded, << <<"Page reloaded">> >>)

playwright_set_viewport ==
    \E fault \in BrowserFaults :
        PageTool("playwright_set_viewport", [width |-> 800, height |-> 600], "page.setViewportSize", fault, FALSE,
                 NotRecorded, << <<"Viewport set to ", 800, "x", 600>> >>)

playwright_drag_and_dropRecorded ==
    \E source \in Selectors, target \in Selectors, fault \in BrowserFaults :
        PageTool("playwright_drag_and_drop",
                 [sourceSelector |-> source, targetSelector |-> target], "page.dragAndDrop", fault, TRUE,
                 [type |-> "dragAndDrop", selector |-> source, value |-> target],
                 << <<"Dragged ", source, " to ", target>> >>)

playwright_drag_and_drop ==
    \E source \in Selectors, target \in Selectors, fault \in BrowserFaults :
        PageTool("playwright_drag_and_drop",
                 [sourceSelector |-> source, targetSelector |-> target], "page.dragAndDrop", fault, FALSE,
                 NotRecorded, << <<"Dragged ", source, " to ", target>> >>)

playwright_get_page_info ==
    \E fault \in BrowserFaults :
        PageTool("playwright_get_page_info", <<>>, "page.title", fault, FALSE,
                 NotRecorded, << <<"URL: ", "(page)">>, <<"Title: ", "(page)">> >>)

\* ------------------------------------------------------------ recording control
startRecordingKeepsLog(name) ==
    /\ isRecording' = TRUE
    /\ recordingName' = name
    /\ UNCHANGED recordedActions

startRecordingRequiresName(name) ==
    IF name = <<>>
    THEN UNCHANGED <<isRecording, recordingName, recordedActions>>
    ELSE /\ isRecording' = TRUE
         /\ recordingName' = name
         /\ recordedActions' = <<>>

\* The three assignments of the playwright_record_start handler.
startRecording(name) ==
    /\ isRecording' = TRUE
    /\ recordingName' = name
    /\ recordedActions' = <<>>

playwright_record_startSuspends ==
    \/ \E name \in Names, r \in Slots :
           /\ inflight[r] = Idle
           /\ clock < horizon
           /\ clock' = clock + 1
           /\ isRecording' = TRUE
           /\ recordingName' = name
           /\ inflight' = [inflight EXCEPT
                               ![r] = [pc |-> "recordedActions = []", name |-> name]]
           /\ last' = [name |-> "await",
                       arguments |-> [tool |-> "playwright_record_start",
                                      call |-> "recordedActions = []"],
                       isError |-> FALSE, text |-> <<>>]
           /\ found' = Found
           /\ calls' = <<>>
           /\ UNCHANGED <<recordedActions, browser, context, page, owner, opened, dirExists, files,
                          started, horizon>>
    \/ \E r \in Slots :
           /\ inflight[r].pc = "recordedActions = []"
           /\ clock < horizon
           /\ clock' = clock + 1
           /\ recordedActions' = <<>>
           /\ started' = [at |-> Now, discarded |-> Len(recordedActions)]
           /\ inflight' = [inflight EXCEPT ![r] = Idle]
           /\ Return("playwright_record_start", [name |-> inflight[r].name],
                     << <<"Recording started: ", inflight[r].name,
                          ". All subsequent actions will be recorded.">> >>)
           /\ found' = Found
           /\ calls' = <<>>
           /\ UNCHANGED <<isRecording, recordingName, browser, context, page, owner, opened,
                          dirExists, files, horizon>>

\* The handler of playwright_record_start: it contains no await.
playwright_record_start ==
    \E name \in Names :
        /\ Serve
        /\ startRecording(name)
        /\ started' = [at |-> Now, discarded |-> Len(recordedActions)]
        /\ Return("playwright_record_start", [name |-> name],
                  << <<"Recording started: ", name,
                       ". All subsequent actions will be recorded.">> >>)
        /\ calls' = <<>>
        /\ UNCHANGED <<browser, context, page, owner, opened, dirExists, files>>

stopRecordingClearsLog ==
    /\ isRecording' = FALSE
    /\ recordedActions' = <<>>
    /\ UNCHANGED recordingName

stopRecordingToggles ==
    /\ isRecording' = ~isRecording
    /\ UNCHANGED <<recordedActions, recordingName>>

\* The assignment of the playwright_record_stop handler.
stopRecording ==
    /\ isRecording' = FALSE
    /\ UNCHANGED <<recordedActions, recordingName>>

playwright_record_stop ==
    /\ Serve
    /\ stopRecording
    /\ Return("playwright_record_stop", <<>>,
              << <<"Recording stopped. ", Len(recordedActions),
                   " actions recorded. Use playwright_generate_test to create a test script.">> >>)
    /\ calls' = <<>>
    /\ UNCHANGED <<browser, context, page, owner, opened, dirExists, files, started>>

\* path.join(process.cwd(), "generated-tests")
TestsDir == <<Cwd, "generated-tests">>

FilePathInCwd(fileName) == <<Cwd, fileName>>

\* path.join(testsDir, fileName)
FilePath(fileName) == Append(TestsDir, fileName)

NoActionsText ==
    << <<"No actions recorded. Start recording with playwright_record_start first.">> >>

GeneratedTextCountsLines(filePath, framework, language, count, testCode) ==
    << <<"Test generated successfully!">>,
       <<"File: ", filePath>>,
       <<"Framework: ", framework>>,
       <<"Language: ", language>>,
       <<"Actions: ", Len(testCode)>>,
       Blank >> \o testCode

\* The text of the response after the file is written.
GeneratedText(filePath, framework, language, count, testCode) ==
    << <<"Test generated successfully!">>,
       <<"File: ", filePath>>,
       <<"Framework: ", framework>>,
       <<"Language: ", language>>,
       <<"Actions: ", count>>,
       Blank >> \o testCode

\* A write that would add data to the end of a file that exists.
writeFileSyncAppends(filePath, data) ==
    [f \in DOMAIN files \cup {filePath} |->
        IF f # filePath THEN files[f]
        ELSE IF f \in DOMAIN files THEN files[f] \o data ELSE data]

\* fs.writeFileSync(filePath, data): the file at filePath now holds data.
writeFileSync(filePath, data) ==
    [f \in DOMAIN files \cup {filePath} |-> IF f = filePath THEN data ELSE files[f]]

NeverEmpty(actions) == FALSE

\* recordedActions.length === 0
NothingRecorded(actions) == Len(actions) = 0

playwright_generate_test ==
    \E framework \in Frameworks, language \in Languages, fileName \in FileNames,
       fault \in WriteFaults :
        LET args == [framework |-> framework, language |-> language, fileName |-> fileName]
            testCode == GenerateDispatch(recordedActions, recordingName, framework, language)
            filePath == FilePath(fileName)
            exists == <<[call |-> "fs.existsSync", threw |-> FALSE, path |-> TestsDir]>>
            mkdir == IF dirExists THEN <<>>
                     ELSE <<[call |-> "fs.mkdirSync", threw |-> fault = "mkdirSync",
                             path |-> TestsDir]>>
            write == <<[call |-> "fs.writeFileSync", threw |-> fault = "writeFileSync",
                        path |-> filePath, data |-> testCode]>>
        IN  /\ Serve
            /\ IF NothingRecorded(recordedActions)
               THEN /\ Return("playwright_generate_test", args, NoActionsText)
                    /\ calls' = <<>>
                    /\ UNCHANGED <<dirExists, files>>
               ELSE IF Threw(mkdir)
               THEN /\ Catch("playwright_generate_test", args,
                             "EACCES: permission denied, mkdir")
                    /\ calls' = exists \o mkdir
                    /\ UNCHANGED <<dirExists, files>>
               ELSE IF Threw(write)
               THEN /\ Catch("playwright_generate_test", args,
                             "EACCES: permission denied, open")
                    /\ calls' = (exists \o mkdir) \o write
                    /\ dirExists' = TRUE
                    /\ UNCHANGED files
               ELSE /\ Return("playwright_generate_test", args,
                              GeneratedText(filePath, framework, language,
                                            Len(recordedActions), testCode))
                    /\ calls' = (exists \o mkdir) \o write
                    /\ dirExists' = TRUE
                    /\ files' = writeFileSync(filePath, testCode)
            /\ UNCHANGED <<recordedActions, isRecording, recordingName,
                           browser, context, page, owner, opened, started>>

playwright_closeKeepsLog ==
    \E fault \in CloseFaults :
        LET m == closeBrowser(Manager, fault)
        IN  /\ Serve
            /\ SetManager(m)
            /\ opened' = Closed(m.calls, browser)
            /\ calls' = m.calls
            /\ IF m.thrown
               THEN /\ Catch("playwright_close", <<>>, "browser operation failed")
                    /\ UNCHANGED isRecording
               ELSE /\ isRecording' = FALSE
                    /\ Return("playwright_close", <<>>, << <<"Browser closed successfully">> >>)
            /\ UNCHANGED <<recordedActions, recordingName, dirExists, files, started>>

\* The handler of playwright_close: closeBrowser, then the reset of the session.
playwright_closeClearsName ==
    \E fault \in CloseFaults :
        LET m == closeBrowser(Manager, fault)
        IN  /\ Serve
            /\ SetManager(m)
            /\ opened' = Closed(m.calls, browser)
            /\ calls' = m.calls
            /\ IF m.thrown
               THEN /\ Catch("playwright_close", <<>>, "browser operation failed")
                    /\ UNCHANGED <<isRecording, recordedActions, recordingName>>
               ELSE /\ isRecording' = FALSE
                    /\ recordedActions' = <<>>
                    /\ recordingName' = <<>>
                    /\ Return("playwright_close", <<>>, << <<"Browser closed successfully">> >>)
            /\ UNCHANGED <<dirExists, files, started>>

playwright_close ==
    \E fault \in CloseFaults :
        LET m == closeBrowser(Manager, fault)
        IN  /\ Serve
            /\ SetManager(m)
            /\ opened' = Closed(m.calls, browser)
            /\ calls' = m.calls
            /\ IF m.thrown
               THEN /\ Catch("playwright_close", <<>>, "browser operation failed")
                    /\ UNCHANGED <<isRecording, recordedActions>>
               ELSE /\ isRecording' = FALSE
                    /\ recordedActions' = <<>>
                    /\ Return("playwright_close", <<>>, << <<"Browser closed successfully">> >>)
            /\ UNCHANGED <<recordingName, dirExists, files, started>>

\* The default case of the switch.
UnknownTool ==
    /\ Serve
    /\ Catch("no_such_tool", <<>>, <<"Unknown tool: ", "no_such_tool">>)
    /\ calls' = <<>>
    /\ UNCHANGED <<recordedActions, isRecording, recordingName,
                   browser, context, page, owner, opened, dirExists, files, started>>

\* ---- arguments the schemas reject
\* Strings that z.string().url() rejects.
NotUrls == {"not a url"}

IsUrl(string) == string \notin NotUrls

\* z.object({ url: z.string().url(), ... })
NavigateSchema(args) == "url" \in DOMAIN args /\ IsUrl(args.url)

\* z.object({ selector: z.string(), ... })
ClickSchema(args) == "selector" \in DOMAIN args

\* z.object({ name: z.string() })
RecordStartSchema(args) == "name" \in DOMAIN args

\* z.object({ framework: z.enum([...]), language: z.enum([...]), fileName: z.string() })
GenerateTestSchema(args) ==
    /\ {"framework", "language", "fileName"} \subseteq DOMAIN args
    /\ args.framework \in Frameworks
    /\ args.language \in Languages

\* A handler that would parse its arguments after ensurePage.
ParseThrowsAfterEnsurePage(name, args, accepted) ==
    LET m == ensurePage(Manager, "none")
    IN  /\ ~accepted
        /\ Serve
        /\ SetManager(m)
        /\ opened' = Opened(m.calls, m.browser)
        /\ calls' = m.calls
        /\ Catch(name, args, "invalid arguments")
        /\ UNCHANGED <<recordedActions, isRecording, recordingName,
                       dirExists, files, started>>

\* Schema.parse(args) is the first statement of the case and throws: the
\* catch block answers.
ParseThrows(name, args, accepted) ==
    /\ ~accepted
    /\ Serve
    /\ Catch(name, args, "invalid arguments")
    /\ calls' = <<>>
    /\ UNCHANGED <<recordedActions, isRecording, recordingName,
                   browser, context, page, owner, opened, dirExists, files, started>>

\* Requests whose arguments their schema rejects.
InvalidArguments ==
    \/ \E url \in NotUrls :
           ParseThrows("playwright_navigate", [url |-> url],
                       NavigateSchema([url |-> url]))
    \/ ParseThrows("playwright_click", <<>>, ClickSchema(<<>>))
    \/ ParseThrows("playwright_record_start", <<>>, RecordStartSchema(<<>>))
    \/ \E language \in Languages, fileName \in FileNames :
           LET args == [framework |-> "cypress", language |-> language,
                        fileName |-> fileName]
           IN  ParseThrows("playwright_generate_test", args, GenerateTestSchema(args))

\* ---------------------------------------------------------------- the server
NoResponse == [name |-> "", arguments |-> <<>>, isError |-> FALSE, text |-> <<>>]

\* The module's state when the server starts.
Boot ==
    /\ recordedActions = <<>>
    /\ isRecording = FALSE
    /\ recordingName = <<>>
    /\ browser = NoHandle
    /\ context = NoHandle
    /\ page = NoHandle
    /\ dirExists \in BOOLEAN
    /\ files = <<>>
    /\ calls = <<>>
    /\ clock = 0
    /\ last = NoResponse
    /\ started = [at |-> 0, discarded |-> 0]
    /\ found = [active |-> FALSE, count |-> 0, closed |-> 0, wrote |-> <<>>]
    /\ owner = [page |-> NoHandle, context |-> NoHandle]
    /\ opened = NothingOpened
    /\ inflight = [r \in Slots |-> Idle]

Init ==
    /\ Boot
    /\ horizon = MaxClock

\* Every tool of the server.
Next ==
    \/ playwright_navigate
    \/ playwright_screenshot
    \/ playwright_click
    \/ playwright_fill
    \/ playwright_type
    \/ playwright_hover
    \/ playwright_select
    \/ playwright_wait_for_selector
    \/ playwright_press_key
    \/ playwright_checkbox
    \/ playwright_extract_text
    \/ playwright_evaluate
    \/ playwright_get_attribute
    \/ playwright_go_back
    \/ playwright_go_forward
    \/ playwright_reload
    \/ playwright_set_viewport
    \/ playwright_drag_and_drop
    \/ playwright_get_page_info
    \/ playwright_record_start
    \/ playwright_record_stop
    \/ playwright_generate_test
    \/ playwright_close
    \/ UnknownTool

Spec == Init /\ [][Next]_vars

\* A client that also sends requests whose arguments the schemas reject.
ValidationNext ==
    \/ Next
    \/ InvalidArguments

ValidationSpec == Init /\ [][ValidationNext]_vars

\* A client that records a session and generates from it: a longer observation
\* of the tools of the round trip.
SessionInit ==
    /\ Boot
    /\ horizon = MaxSession

SessionNext ==
    \/ playwright_record_start
    \/ playwright_navigate
    \/ playwright_click
    \/ playwright_record_stop
    \/ playwright_generate_test

SessionSpec == SessionInit /\ [][SessionNext]_vars

\* ------------------------------------------- the recorder and the generator
\* recordAction called with every action a handler can pass it, and the
\* dispatch of playwright_generate_test applied to the log that results.
Candidates ==
    {NavigateAction(url) : url \in Urls}
    \cup {ScreenshotAction(name) : name \in ShotNames}
    \cup {ClickAction(selector) : selector \in Selectors}
    \cup {FillAction(selector, value) : selector \in Selectors, value \in Values}
    \cup {TypeAction(selector, text) : selector \in Selectors, text \in Values}
    \cup {HoverAction(selector) : selector \in Selectors}
    \cup {SelectAction(selector, value) : selector \in Selectors, value \in Values}
    \cup {WaitForSelectorAction(selector) : selector \in Selectors}
    \cup {PressAction(key) : key \in Keys}
    \cup {CheckboxAction(selector, checked) : selector \in Selectors, checked \in BOOLEAN}

\* The session after playwright_record_start(name).
GenInit ==
    /\ recordedActions = <<>>
    /\ isRecording = TRUE
    /\ recordingName \in Names
    /\ browser = NoHandle
    /\ context = NoHandle
    /\ page = NoHandle
    /\ dirExists = FALSE
    /\ files = <<>>
    /\ calls = <<>>
    /\ clock = 0
    /\ horizon = MaxLen
    /\ last = NoResponse
    /\ started = [at |-> 0, discarded |-> 0]
    /\ found = [active |-> FALSE, count |-> 0, closed |-> 0, wrote |-> <<>>]
    /\ owner = [page |-> NoHandle, context |-> NoHandle]
    /\ opened = NothingOpened
    /\ inflight = [r \in Slots |-> Idle]

Record ==
    \E action \in Candidates :
        /\ Serve
        /\ recordedActions' = recordAction(action)
        /\ last' = [name |-> "recordAction", arguments |-> action,
                    isError |-> FALSE, text |-> <<>>]
        /\ UNCHANGED <<isRecording, recordingName, browser, context, page, owner, opened,
                       dirExists, files, calls, started>>

\* The handler of playwright_generate_test up to the assignment of testCode.
Render ==
    \E framework \in Frameworks, language \in Languages :
        /\ ~NothingRecorded(recordedActions)
        /\ last' = [name |-> "GenerateDispatch",
                    arguments |-> [framework |-> framework, language |-> language],
                    isError |-> FALSE,
                    text |-> GenerateDispatch(recordedActions, recordingName,
                                              framework, language)]
        /\ UNCHANGED <<recordedActions, isRecording, recordingName, browser, context, owner, opened,
                       page, dirExists, files, calls, clock, horizon, started, found,
                       inflight>>

GenNext ==
    \/ Record
    \/ Render

GenSpec == GenInit /\ [][GenNext]_vars

\* ------------------------------------------------------ overlapping requests
\* The CallTool handler is an async function and the server starts it for each
\* request as the request arrives: a handler runs from one await to the next
\* without interruption, and while it waits for a browser call to settle other
\* handlers run. A step below is the code a handler runs between two awaits of
\* browser calls (a resumption from an await of a value that is already there
\* is taken with the code before it). The handlers of playwright_record_start,
\* playwright_record_stop and playwright_generate_test contain no await: each
\* is the one step it is above.
MaxSteps == 8

\* Time passes with every step.
Step ==
    /\ clock < horizon
    /\ clock' = clock + 1
    /\ found' = Found
    /\ UNCHANGED horizon

\* A request takes the first slot that holds none.
FreeSlot(r) ==
    /\ inflight[r] = Idle
    /\ \A q \in Slots : q < r => inflight[q] # Idle

\* The handler in slot r now waits for `call`, holding `local`.
Suspend(r, req, call, local) ==
    /\ inflight' = [inflight EXCEPT ![r] = [req EXCEPT !.pc = call, !.local = local]]
    /\ last' = [name |-> "await", arguments |-> [tool |-> req.name, call |-> call],
                isError |-> FALSE, text |-> <<>>]

\* The handler in slot r has returned.
Done(r) == inflight' = [inflight EXCEPT ![r] = Idle]

\* The awaited call of the handler in slot r settles.
Settles(r, call, threw) ==
    /\ inflight[r].pc = call
    /\ Step
    /\ calls' = <<[call |-> call, threw |-> threw]>>

\* A handler that would settle at the arrival of the request whether its
\* action is recorded.
BeginPageToolDecidesAtArrival(r, name, args, op, recording, action, text) ==
    LET req == [pc |-> "idle", name |-> name, args |-> args, op |-> op,
                recording |-> recording /\ isRecording, action |-> action,
                text |-> text, local |-> NoHandle]
    IN  /\ FreeSlot(r)
        /\ Step
        /\ calls' = <<>>
        /\ IF page # NoHandle THEN Suspend(r, req, "operation", page)
           ELSE IF context # NoHandle THEN Suspend(r, req, "context.newPage", context)
           ELSE IF browser # NoHandle THEN Suspend(r, req, "browser.newContext", browser)
           ELSE Suspend(r, req, "chromium.launch", NoHandle)
        /\ UNCHANGED <<recordedActions, isRecording, recordingName,
                       browser, context, page, owner, opened, dirExists, files, started>>

\* A handler that drives the page, from the arrival of the request to its
\* first await: ensurePage, ensureContext and ensureBrowser test the fields
\* and call the first thing that is missing.
BeginPageTool(r, name, args, op, recording, action, text) ==
    LET req == [pc |-> "idle", name |-> name, args |-> args, op |-> op,
                recording |-> recording, action |-> action, text |-> text,
                local |-> NoHandle]
    IN  /\ FreeSlot(r)
        /\ Step
        /\ calls' = <<>>
        /\ IF page # NoHandle THEN Suspend(r, req, "operation", page)
           ELSE IF context # NoHandle THEN Suspend(r, req, "context.newPage", context)
           ELSE IF browser # NoHandle THEN Suspend(r, req, "browser.newContext", browser)
           ELSE Suspend(r, req, "chromium.launch", NoHandle)
        /\ UNCHANGED <<recordedActions, isRecording, recordingName,
                       browser, context, page, owner, opened, dirExists, files, started>>

\* The catch block answers for the handler in slot r.
Fails(r) ==
    /\ Catch(inflight[r].name, inflight[r].args, "browser operation failed")
    /\ Done(r)

\* this.browser = await chromium.launch(...); then browser.newContext(...)
AwaitLaunch(r) ==
    \E threw \in BOOLEAN :
        /\ Settles(r, "chromium.launch", threw)
        /\ IF threw
           THEN Fails(r) /\ UNCHANGED <<browser, opened>>
           ELSE /\ browser' = FreshHandle
                /\ opened' = Opened(calls', FreshHandle)
                /\ Suspend(r, inflight[r], "browser.newContext", FreshHandle)
        /\ UNCHANGED <<recordedActions, isRecording, recordingName,
                       context, page, owner, dirExists, files, started>>

\* this.context = await browser.newContext(...); then context.newPage()
AwaitNewContext(r) ==
    \E threw \in BOOLEAN :
        /\ Settles(r, "browser.newContext", threw)
        /\ IF threw
           THEN Fails(r) /\ UNCHANGED <<context, owner, opened>>
           ELSE /\ context' = FreshHandle
                /\ opened' = Opened(calls', browser)
                /\ owner' = [owner EXCEPT !.context = inflight[r].local]
                /\ Suspend(r, inflight[r], "context.newPage", FreshHandle)
        /\ UNCHANGED <<recordedActions, isRecording, recordingName,
                       browser, page, dirExists, files, started>>

\* this.page = await context.newPage(); then the page operation
AwaitNewPage(r) ==
    \E threw \in BOOLEAN :
        /\ Settles(r, "context.newPage", threw)
        /\ IF threw
           THEN Fails(r) /\ UNCHANGED <<page, owner, opened>>
           ELSE /\ page' = FreshHandle
                /\ opened' = Opened(calls', browser)
                /\ owner' = [owner EXCEPT !.page = inflight[r].local]
                /\ Suspend(r, inflight[r], "operation", FreshHandle)
        /\ UNCHANGED <<recordedActions, isRecording, recordingName,
                       browser, context, dirExists, files, started>>

\* The page operation settles: recordAction and the response, or the catch
\* block.
AwaitOperation(r) ==
    \E threw \in BOOLEAN :
        LET req == inflight[r]
        IN  /\ req.pc = "operation"
            /\ Step
            /\ calls' = <<[call |-> req.op, threw |-> threw]>>
            /\ IF threw
               THEN Fails(r) /\ UNCHANGED recordedActions
               ELSE /\ recordedActions' = IF req.recording THEN recordAction(req.action)
                                          ELSE recordedActions
                    /\ Return(req.name, req.args, req.text)
                    /\ Done(r)
            /\ UNCHANGED <<isRecording, recordingName, browser, context, page, owner, opened,
                           dirExists, files, started>>

OverlapNavigate ==
    \E r \in Slots, url \in Urls :
        BeginPageTool(r, "playwright_navigate", [url |-> url], "page.goto", TRUE,
                      NavigateAction(url),
                      << <<"Successfully navigated to ", url>> >>)

OverlapGoBack ==
    \E r \in Slots :
        BeginPageTool(r, "playwright_go_back", <<>>, "page.goBack", FALSE,
                      NotRecorded, << <<"Navigated back">> >>)

\* The handler of playwright_close waits for `call`.
SuspendClose(r, call, handle) ==
    /\ Suspend(r, [pc |-> "idle", name |-> "playwright_close", args |-> <<>>,
                   local |-> NoHandle], call, handle)
    /\ UNCHANGED <<recordedActions, isRecording>>

\* closeBrowser has returned: the reset of the session and the response.
FinishClose(r) ==
    /\ isRecording' = FALSE
    /\ recordedActions' = <<>>
    /\ Return("playwright_close", <<>>, << <<"Browser closed successfully">> >>)
    /\ Done(r)

\* closeBrowser from its test of this.context on, the fields being c and b.
CloseFromContext(r, c, b) ==
    IF c # NoHandle THEN SuspendClose(r, "context.close", c)
    ELSE IF b # NoHandle THEN SuspendClose(r, "browser.close", b)
    ELSE FinishClose(r)

\* The handler of playwright_close from the arrival of the request to its
\* first await.
BeginClose(r) ==
    /\ FreeSlot(r)
    /\ Step
    /\ calls' = <<>>
    /\ IF page # NoHandle THEN SuspendClose(r, "page.close", page)
       ELSE CloseFromContext(r, context, browser)
    /\ opened' = Closed(<<>>, NoHandle)
    /\ UNCHANGED <<recordingName, browser, context, page, owner, dirExists, files, started>>

\* await this.page.close(); this.page = null; then the test of this.context
AwaitPageClose(r) ==
    \E threw \in BOOLEAN :
        /\ Settles(r, "page.close", threw)
        /\ IF threw
           THEN Fails(r) /\ UNCHANGED <<page, owner, opened, recordedActions, isRecording>>
           ELSE /\ page' = NoHandle
                /\ owner' = [owner EXCEPT !.page = NoHandle]
                /\ UNCHANGED opened
                /\ CloseFromContext(r, context, browser)
        /\ UNCHANGED <<recordingName, browser, context, dirExists, files, started>>

\* await this.context.close(); this.context = null; then the test of this.browser
AwaitContextClose(r) ==
    \E threw \in BOOLEAN :
        /\ Settles(r, "context.close", threw)
        /\ IF threw
           THEN Fails(r) /\ UNCHANGED <<context, owner, opened, recordedActions, isRecording>>
           ELSE /\ context' = NoHandle
                /\ owner' = [owner EXCEPT !.context = NoHandle]
                /\ UNCHANGED opened
                /\ CloseFromContext(r, NoHandle, browser)
        /\ UNCHANGED <<recordingName, browser, page, dirExists, files, started>>

\* await this.browser.close(); this.browser = null; then the reset
AwaitBrowserClose(r) ==
    \E threw \in BOOLEAN :
        /\ Settles(r, "browser.close", threw)
        /\ IF threw
           THEN Fails(r) /\ UNCHANGED <<browser, opened, recordedActions, isRecording>>
           ELSE /\ browser' = NoHandle
                /\ opened' = [opened EXCEPT !.running = @ \ {inflight[r].local}]
                /\ FinishClose(r)
        /\ UNCHANGED <<recordingName, context, page, owner, dirExists, files, started>>

\* The client of this observation names its recordings "s1" and generates
\* Playwright tests in TypeScript.
OverlapRecordStart ==
    /\ playwright_record_start
    /\ recordingName' = <<"s", "1">>

OverlapGenerateTest ==
    /\ playwright_generate_test
    /\ last'.arguments.framework = "playwright"
    /\ last'.arguments.language = "typescript"
    /\ ~Threw(calls')

OverlapInit ==
    /\ Boot
    /\ horizon = MaxSteps

\* Requests arrive while others wait; the recording tools answer at once.
OverlapNext ==
    \/ OverlapNavigate
    \/ OverlapGoBack
    \/ \E r \in Slots : BeginClose(r)
    \/ \E r \in Slots : AwaitLaunch(r)
    \/ \E r \in Slots : AwaitNewContext(r)
    \/ \E r \in Slots : AwaitNewPage(r)
    \/ \E r \in Slots : AwaitOperation(r)
    \/ \E r \in Slots : AwaitPageClose(r)
    \/ \E r \in Slots : AwaitContextClose(r)
    \/ \E r \in Slots : AwaitBrowserClose(r)
    \/ OverlapRecordStart
    \/ playwright_record_stop
    \/ OverlapGenerateTest

OverlapSpec == OverlapInit /\ [][OverlapNext]_vars

\* ============================================================ the claims
RecordableTools ==
    {"playwright_navigate", "playwright_screenshot", "playwright_click",
     "playwright_fill", "playwright_type", "playwright_hover", "playwright_select",
     "playwright_wait_for_selector", "playwright_press_key", "playwright_checkbox"}

\* The latest request was a call of `tool`.
Served(tool) == last.name = tool

\* ---- reading a generated text
\* The kinds of action whose template, in some target, gives this line; none
\* for a line of the boilerplate.
KindsOf(line) ==
    IF Len(line) = 0 THEN {}
    ELSE CASE line[1] \in {"  await page.goto('", "        page.goto('", "    driver.get('"}
                -> {"navigate"}
           [] line[1] \in {"  await page.click('", "        page.click('"}
                -> {"click"}
           [] line[1] = "    driver.find_element(By.CSS_SELECTOR, '"
                -> IF Len(line) = 3 THEN {"click"} ELSE {"fill", "type"}
           [] line[1] \in {"  await page.fill('", "        page.fill('"}
                -> {"fill"}
           [] line[1] = "  await page.type('"
                -> {"fill", "type"}
           [] line[1] = "        page.type('"
                -> {"type"}
           [] line[1] \in {"  await page.keyboard.press('", "        page.keyboard.press('"}
                -> {"press"}
           [] line[1] \in {"  await page.selectOption('", "  await page.select('",
                           "        page.select_option('"}
                -> {"select"}
           [] line[1] \in {"  await page.hover('", "        page.hover('"}
                -> {"hover"}
           [] line[1] = "  await page.check('"
                -> {"check"}
           [] line[1] = "  await page.uncheck('"
                -> {"uncheck"}
           [] line[1] \in {"  await page.waitForSelector('", "        page.wait_for_selector('",
                           "    WebDriverWait(driver, 10).until(EC.presence_of_element_located((By.CSS_SELECTOR, '"}
                -> {"waitForSelector"}
           [] line[1] \in {"  await page.screenshot({ path: '", "        page.screenshot(path='",
                           "    driver.save_screenshot('"}
                -> {"screenshot"}
           [] OTHER -> {}

IsStatement(line) == KindsOf(line) # {}

\* The values a statement quotes.
ArgsOf(line) == IF Len(line) >= 5 THEN <<line[2], line[4]>> ELSE <<line[2]>>

\* The values the handler recorded with an action.
PayloadOf(action) ==
    CASE action.type = "navigate" -> <<action.url>>
      [] action.type = "press" -> <<action.key>>
      [] action.type = "screenshot" -> <<action.value>>
      [] action.type \in {"fill", "type", "select"} -> <<action.selector, action.value>>
      [] OTHER -> <<action.selector>>

\* The line is a statement for the action: its call is one of the action's
\* kind and it quotes the action's values.
Describes(line, action) ==
    /\ action.type \in KindsOf(line)
    /\ ArgsOf(line) = PayloadOf(action)

\* The action statements of a text, in the order of the text.
Statements(text) == SelectSeq(text, IsStatement)

\* The lines of a text that are no action statements.
Boilerplate(text) == SelectSeq(text, LAMBDA line : ~IsStatement(line))

AllKinds ==
    {"navigate", "click", "fill", "type", "press", "select", "hover", "check",
     "uncheck", "waitForSelector", "screenshot"}

\* The kinds that have a template for the framework and language.
TemplateKinds(framework, language) ==
    IF language = "python"
    THEN IF framework = "playwright"
         THEN AllKinds \ {"check", "uncheck"}
         ELSE {"navigate", "click", "fill", "type", "waitForSelector", "screenshot"}
    ELSE IF framework = "playwright" THEN AllKinds
    ELSE IF framework = "puppeteer" THEN AllKinds \ {"check", "uncheck"}
    ELSE {}

\* The entries of the log that have a template, in the order of the log.
Templated(log, framework, language) ==
    SelectSeq(log, LAMBDA a : a.type \in TemplateKinds(framework, language))

\* The statements of the text are those of the templated entries of the log,
\* one each and in the order of the log.
RendersLog(text, log, framework, language) ==
    LET st == Statements(text)
        want == Templated(log, framework, language)
    IN  /\ Len(st) = Len(want)
        /\ \A i \in 1..Len(st) : Describes(st[i], want[i])

\* C1: the log grows only while recording is active. A recordable tool whose
\* browser calls all succeed while isRecording is false leaves recordedActions
\* unchanged and answers without error, and every step that lengthens
\* recordedActions starts in a state where isRecording is true.
C1_LogGrowsOnlyWhileRecording ==
    [][ /\ (last'.name \in RecordableTools /\ ~Threw(calls') /\ ~isRecording)
            => (recordedActions' = recordedActions /\ ~last'.isError)
        /\ (Len(recordedActions') > Len(recordedActions)) => isRecording
      ]_vars

\* A recordable tool has succeeded while recording was off, and the log is
\* still empty.
C1_Witness ==
    /\ last.name \in RecordableTools
    /\ ~last.isError
    /\ ~Threw(calls)
    /\ ~isRecording
    /\ recordedActions = <<>>

\* C2: in the state playwright_record_start(name) leaves, isRecording is true,
\* recordingName is name and recordedActions is empty, whatever the session was
\* before the call.
C2_StartResets ==
    Served("playwright_record_start")
        => /\ ~last.isError
           /\ isRecording
           /\ recordingName = last.arguments.name
           /\ recordedActions = <<>>

\* A playwright_record_start has completed that found recording active and
\* one action in the log.
C2_Witness ==
    /\ Served("playwright_record_start")
    /\ started = [at |-> 3, discarded |-> 1]
    /\ recordingName = <<"a", " ", "b">>
    /\ recordedActions = <<>>

\* C3: playwright_record_stop sets isRecording to false and leaves
\* recordedActions and recordingName as they were; a playwright_generate_test
\* served right after the stop, whose file is written, renders exactly the
\* log of that moment.
C3_StopKeepsLog ==
    [][ /\ last'.name = "playwright_record_stop"
            => /\ ~last'.isError
               /\ ~isRecording'
               /\ recordedActions' = recordedActions
               /\ recordingName' = recordingName
        /\ ( /\ Served("playwright_record_stop")
             /\ last'.name = "playwright_generate_test"
             /\ recordedActions # <<>>
             /\ ~Threw(calls') )
            => /\ ~last'.isError
               /\ RendersLog(last'.text, recordedActions,
                             last'.arguments.framework, last'.arguments.language)
      ]_vars

\* A test was generated from the two actions of a stopped recording.
C3_Witness ==
    /\ Served("playwright_generate_test")
    /\ ~last.isError
    /\ ~isRecording
    /\ Len(recordedActions) = 2
    /\ Len(Statements(last.text)) = 2

\* C4: the statements of the generated text are in the order of the log, with
\* one statement for each occurrence of an action that is rendered (no
\* reordering, no deduplication), and the log is in the order of the
\* recordAction calls: the action of the latest call is the last entry and the
\* times of the calls increase along the log.
C4_OrderPreserved ==
    /\ \A i, j \in 1..Len(recordedActions) :
           i < j => recordedActions[i].timestamp < recordedActions[j].timestamp
    /\ Served("recordAction")
           => /\ recordedActions # <<>>
              /\ recordedActions[Len(recordedActions)]
                     = last.arguments @@ [timestamp |-> clock]
    /\ Served("GenerateDispatch")
           => LET st == Statements(last.text)
                  shown == SelectSeq(recordedActions,
                                     LAMBDA a : \E k \in 1..Len(st) : Describes(st[k], a))
              IN  /\ Len(st) = Len(shown)
                  /\ \A k \in 1..Len(st) : Describes(st[k], shown[k])

\* A log that holds the same click twice around a navigation was rendered for
\* Playwright, with three statements.
C4_Witness ==
    /\ Served("GenerateDispatch")
    /\ last.arguments.framework = "playwright"
    /\ last.arguments.language = "javascript"
    /\ Len(recordedActions) = 3
    /\ recordedActions[1].type = "click"
    /\ recordedActions[2].type = "navigate"
    /\ recordedActions[3].type = "click"
    /\ Len(Statements(last.text)) = 3

\* C5: the number of action statements is the number of log entries whose kind
\* has a template for the framework and language: N when every kind of the log
\* has one, never more than N; an entry without a template leaves nothing in
\* the text (the other lines are those of the rendering of the empty log) and
\* raises no error.
C5_StatementCount ==
    Served("GenerateDispatch")
        => LET fw == last.arguments.framework
               lang == last.arguments.language
               n == Len(Statements(last.text))
               mapped == {i \in 1..Len(recordedActions) :
                              recordedActions[i].type \in TemplateKinds(fw, lang)}
           IN  /\ ~last.isError
               /\ n = Cardinality(mapped)
               /\ n <= Len(recordedActions)
               /\ (Cardinality(mapped) = Len(recordedActions)) => n = Len(recordedActions)
               /\ Boilerplate(last.text) = GenerateDispatch(<<>>, recordingName, fw, lang)

\* Three actions, one of them a checkbox action, rendered for Puppeteer: two
\* statements.
C5_Witness ==
    /\ Served("GenerateDispatch")
    /\ last.arguments.framework = "puppeteer"
    /\ last.arguments.language = "typescript"
    /\ Len(recordedActions) = 3
    /\ recordedActions[2].type = "check"
    /\ Len(Statements(last.text)) = 2

\* C6: playwright_generate_test served while the log is empty answers with the
\* "No actions recorded" message and isError unset, makes no fs call (no
\* directory created, no file written) and leaves the session as it was.
C6_EmptyLogNoArtifact ==
    [][ (last'.name = "playwright_generate_test" /\ recordedActions = <<>>)
            => /\ last'.text = NoActionsText
               /\ ~last'.isError
               /\ calls' = <<>>
               /\ UNCHANGED <<dirExists, files>>
               /\ UNCHANGED <<recordedActions, isRecording, recordingName>>
      ]_vars

\* The no-actions answer was given while recording is active and
\* generated-tests does not exist.
C6_Witness ==
    /\ Served("playwright_generate_test")
    /\ last.text = NoActionsText
    /\ isRecording
    /\ recordedActions = <<>>
    /\ ~dirExists

\* C7: what was recorded before the latest playwright_record_start is in no
\* later log and in no text generated later: every entry of the log was
\* recorded after the latest start, and the statements of a generated text
\* are those of the entries of that log.
C7_RestartDiscards ==
    /\ \A i \in 1..Len(recordedActions) : recordedActions[i].timestamp > started.at
    /\ (Served("playwright_record_start") /\ started.at = clock) => recordedActions = <<>>
    /\ (Served("playwright_generate_test") /\ recordedActions # <<>> /\ ~Threw(calls))
           => RendersLog(last.text, recordedActions,
                         last.arguments.framework, last.arguments.language)

\* A recording with one action in its log was restarted at time 3 under the
\* name "a b", one action was recorded at time 4 and a test generated at
\* time 5: it has that one statement.
C7_Witness ==
    /\ Served("playwright_generate_test")
    /\ ~last.isError
    /\ started = [at |-> 3, discarded |-> 1]
    /\ recordingName = <<"a", " ", "b">>
    /\ Len(recordedActions) = 1
    /\ recordedActions[1].timestamp = 4
    /\ Len(Statements(last.text)) = 1

\* C8: a recordable tool one of whose browser calls throws answers with an
\* error and leaves recordedActions, isRecording and recordingName unchanged,
\* also while recording is active.
C8_FailedPrimitiveNotRecorded ==
    [][ (last'.name \in RecordableTools /\ Threw(calls'))
            => /\ last'.isError
               /\ UNCHANGED <<recordedActions, isRecording, recordingName>>
      ]_vars

\* The page operation of a recordable tool threw while recording was active
\* and one action was in the log.
C8_Witness ==
    /\ last.name \in RecordableTools
    /\ last.isError
    /\ Len(calls) = 1
    /\ calls[1].threw
    /\ isRecording
    /\ Len(recordedActions) = 1

\* ---- the parts of a generated text
IsImport(line) ==
    /\ Len(line) > 0
    /\ line[1] \in {"import { test, expect } from '@playwright/test';",
                    "const { test, expect } = require('@playwright/test');",
                    "import puppeteer from 'puppeteer';",
                    "const puppeteer = require('puppeteer');",
                    "from playwright.sync_api import sync_playwright",
                    "from selenium import webdriver"}

IsEntryPoint(line) ==
    /\ Len(line) > 0
    /\ line[1] \in {"test('", "(async () => {", "def test_"}

IsClosing(line) ==
    /\ Len(line) > 0
    /\ line[1] \in {"});", "})();", "        browser.close()", "    driver.quit()"}

\* C9: for each of the nine framework/language pairs and every non-empty log
\* the generated text is not empty: it starts with the import boilerplate, has
\* exactly one entry point, one statement per templated action of the log, and
\* ends with the closing boilerplate.
C9_AllNineRender ==
    Served("GenerateDispatch")
        => LET text == last.text
           IN  /\ ~last.isError
               /\ text # <<>>
               /\ IsImport(text[1])
               /\ Cardinality({i \in 1..Len(text) : IsEntryPoint(text[i])}) = 1
               /\ Len(Statements(text))
                      = Len(Templated(recordedActions, last.arguments.framework,
                                      last.arguments.language))
               /\ IsClosing(text[Len(text)])

\* C10: when the log is a navigation to url followed by a click on selector
\* and playwright_generate_test(playwright, typescript, fileName) is served
\* with every fs call succeeding, the response is no error, ends with the
\* generated text, reports the path generated-tests/fileName under the
\* working directory, the file at that path holds the generated text, and in
\* it a goto statement quoting url precedes a click statement quoting
\* selector.
C10_RoundTrip ==
    \A url \in Urls, selector \in Selectors, fileName \in FileNames :
        ( /\ Served("playwright_generate_test")
          /\ last.arguments = [framework |-> "playwright", language |-> "typescript",
                               fileName |-> fileName]
          /\ Len(recordedActions) = 2
          /\ recordedActions[1].type = "navigate"
          /\ recordedActions[1].url = url
          /\ recordedActions[2].type = "click"
          /\ recordedActions[2].selector = selector
          /\ ~Threw(calls) )
        => LET path == <<Cwd, "generated-tests", fileName>>
               text == last.text
           IN  /\ ~last.isError
               /\ path \in DOMAIN files
               /\ \E h \in 1..Len(text) :
                      /\ text[h] = <<"File: ", path>>
                      /\ \E b \in h..Len(text) :
                             files[path] = SubSeq(text, b + 1, Len(text))
               /\ \E i, j \in 1..Len(files[path]) :
                      /\ i < j
                      /\ KindsOf(files[path][i]) = {"navigate"}
                      /\ ArgsOf(files[path][i]) = <<url>>
                      /\ KindsOf(files[path][j]) = {"click"}
                      /\ ArgsOf(files[path][j]) = <<selector>>

\* start("s1"), navigate, click, stop, generate(playwright, typescript, "out"):
\* the file was written.
C10_Witness ==
    /\ Served("playwright_generate_test")
    /\ last.arguments = [framework |-> "playwright", language |-> "typescript",
                         fileName |-> "out"]
    /\ ~last.isError
    /\ ~isRecording
    /\ recordingName = <<"s", "1">>
    /\ started = [at |-> 1, discarded |-> 0]
    /\ clock = 5
    /\ Len(recordedActions) = 2
    /\ recordedActions[1].type = "navigate"
    /\ recordedActions[1].timestamp = 2
    /\ recordedActions[2].type = "click"
    /\ recordedActions[2].timestamp = 3
    /\ <<Cwd, "generated-tests", "out">> \in DOMAIN files

\* C11 as claimed: a playwright_record_start whose name is the empty string
\* does not start a recording: it leaves isRecording, recordingName and
\* recordedActions as they were.
C11_EmptyNameRejected ==
    [][ ( /\ clock' # clock
          /\ last'.name = "playwright_record_start"
          /\ last'.arguments.name = <<>> )
            => UNCHANGED <<recordedActions, isRecording, recordingName>>
      ]_vars

\* C11 as amended: a playwright_record_start whose name is the empty string is
\* served like any other: it answers without error, sets isRecording, stores
\* the empty name and empties the log.
C11_EmptyNameAccepted ==
    [][ ( /\ clock' # clock
          /\ last'.name = "playwright_record_start"
          /\ last'.arguments.name = <<>> )
            => /\ ~last'.isError
               /\ isRecording'
               /\ recordingName' = <<>>
               /\ recordedActions' = <<>>
      ]_vars

\* A recording with one action in its log was restarted under the empty name.
C11_Witness ==
    /\ Served("playwright_record_start")
    /\ last.arguments.name = <<>>
    /\ started = [at |-> 3, discarded |-> 1]
    /\ isRecording
    /\ recordingName = <<>>
    /\ recordedActions = <<>>

\* C12: playwright_record_stop served while recording is not active (before
\* any start, or after another stop) answers without error and leaves
\* isRecording false and the log and the name as they were;
\* playwright_record_start served while recording is active answers without
\* error and leaves recording active under the new name with an empty log.
C12_StopIdempotentStartRestarts ==
    [][ /\ (clock' # clock /\ last'.name = "playwright_record_stop" /\ ~isRecording)
            => /\ ~last'.isError
               /\ ~isRecording'
               /\ UNCHANGED <<recordedActions, recordingName>>
        /\ (clock' # clock /\ last'.name = "playwright_record_start" /\ isRecording)
            => /\ ~last'.isError
               /\ isRecording'
               /\ recordingName' = last'.arguments.name
               /\ recordedActions' = <<>>
      ]_vars

\* playwright_record_stop was served while recording was already stopped and
\* one action was in the log: the action and the name are still there.
C12_Witness ==
    /\ Served("playwright_record_stop")
    /\ ~found.active
    /\ found.count = 1
    /\ ~isRecording
    /\ Len(recordedActions) = 1
    /\ recordingName = <<"s", "1">>

\* C13: in the state a successful playwright_close leaves, recordedActions is
\* empty and isRecording is false; a playwright_generate_test served next
\* answers with the "No actions recorded" message; and from a state with an
\* empty log and recording off, every request other than
\* playwright_record_start, a successful recordable tool included, leaves the
\* log empty and recording off.
C13_CloseResets ==
    [][ /\ (clock' # clock /\ last'.name = "playwright_close" /\ ~last'.isError)
            => (recordedActions' = <<>> /\ ~isRecording')
        /\ ( /\ Served("playwright_close") /\ ~last.isError
             /\ clock' # clock /\ last'.name = "playwright_generate_test" )
            => (last'.text = NoActionsText /\ ~last'.isError /\ calls' = <<>>)
        /\ ( /\ recordedActions = <<>> /\ ~isRecording
             /\ clock' # clock /\ last'.name # "playwright_record_start" )
            => (recordedActions' = <<>> /\ ~isRecording')
      ]_vars

\* playwright_close closed the page, the context and the browser while a
\* recording was active with one action in its log: the log is empty and
\* recording is off.
C13_Witness ==
    /\ Served("playwright_close")
    /\ ~last.isError
    /\ Len(calls) = 3
    /\ found.active
    /\ found.count = 1
    /\ recordedActions = <<>>
    /\ ~isRecording
    /\ recordingName = <<"s", "1">>

\* log is an initial part of longer.
StartsWith(longer, log) ==
    /\ Len(log) <= Len(longer)
    /\ \A i \in 1..Len(log) : longer[i] = log[i]

\* C14: every step either keeps every entry of the log at its position with
\* its fields unchanged, adding at most one entry at the end, or is a
\* playwright_record_start or a successful playwright_close, which leave the
\* log empty; playwright_record_stop and playwright_generate_test leave the
\* log as it was.
C14_EntriesStay ==
    [][ /\ \/ /\ StartsWith(recordedActions', recordedActions)
              /\ Len(recordedActions') <= Len(recordedActions) + 1
           \/ /\ last'.name \in {"playwright_record_start", "playwright_close"}
              /\ ~last'.isError
              /\ recordedActions' = <<>>
        /\ last'.name \in {"playwright_record_stop", "playwright_generate_test"}
               => recordedActions' = recordedActions
        /\ (last'.name = "playwright_close" /\ last'.isError)
               => recordedActions' = recordedActions
      ]_vars

\* An action recorded at time 2 is still the first entry of the log after a
\* second action was recorded at time 3.
C14_Witness ==
    /\ last.name \in RecordableTools
    /\ found.active
    /\ found.count = 1
    /\ Len(recordedActions) = 2
    /\ recordedActions[1].timestamp = 2
    /\ recordedActions[2].timestamp = 3

\* The fs calls among cs that are calls of `call`.
CallsOf(cs, call) == SelectSeq(cs, LAMBDA c : c.call = call)

\* C15: when fs.mkdirSync or fs.writeFileSync throws, playwright_generate_test
\* answers with isError and the text "Error: " followed by the message of the
\* failure; the call that threw is the last fs call of the request and
\* neither call is made twice; isRecording, recordingName
\* and recordedActions are as before, and a playwright_generate_test served
\* next whose fs calls succeed writes the file.
C15_WriteFailureReported ==
    [][ /\ (clock' # clock /\ last'.name = "playwright_generate_test" /\ Threw(calls'))
            => /\ last'.isError
               /\ calls'[Len(calls')].threw
               /\ \A i \in 1..(Len(calls') - 1) : ~calls'[i].threw
               /\ last'.text
                      = << <<"Error: ",
                             IF calls'[Len(calls')].call = "fs.mkdirSync"
                             THEN "EACCES: permission denied, mkdir"
                             ELSE "EACCES: permission denied, open">> >>
               /\ Len(CallsOf(calls', "fs.mkdirSync")) <= 1
               /\ Len(CallsOf(calls', "fs.writeFileSync")) <= 1
               /\ UNCHANGED <<recordedActions, isRecording, recordingName>>
        /\ ( /\ Served("playwright_generate_test") /\ Threw(calls)
             /\ clock' # clock
             /\ last'.name = "playwright_generate_test" /\ ~Threw(calls') )
            => /\ ~last'.isError
               /\ FilePath(last'.arguments.fileName) \in DOMAIN files'
               /\ files'[FilePath(last'.arguments.fileName)]
                      = GenerateDispatch(recordedActions, recordingName,
                                         last'.arguments.framework,
                                         last'.arguments.language)
      ]_vars

\* fs.writeFileSync threw after generated-tests was created, while a recording
\* with one action was active: an error response, no file, the session as it
\* was.
C15_Witness ==
    /\ Served("playwright_generate_test")
    /\ last.isError
    /\ Len(calls) = 3
    /\ calls[3].call = "fs.writeFileSync"
    /\ calls[3].threw
    /\ files = <<>>
    /\ dirExists
    /\ found.active
    /\ found.count = 1
    /\ isRecording
    /\ Len(recordedActions) = 1

\* The tools that act on the page: the recorded ones and the five named by
\* the claim.
BrowserDrivingTools ==
    RecordableTools
    \cup {"playwright_go_back", "playwright_go_forward", "playwright_reload",
          "playwright_set_viewport", "playwright_drag_and_drop"}

\* C16: every successful call of a tool that drives the browser, made while
\* recording is active, adds one entry to the log.
C16_AllBrowserToolsRecorded ==
    [][ ( /\ clock' # clock
          /\ last'.name \in BrowserDrivingTools
          /\ ~last'.isError
          /\ isRecording )
            => Len(recordedActions') = Len(recordedActions) + 1
      ]_vars

\* C17: with requests overlapping, every step that changes isRecording,
\* recordingName or recordedActions is one whole session operation: a start
\* that leaves (true, name, empty log), a stop that only clears isRecording,
\* the reset of a successful close, or one append by a recordable tool made
\* while isRecording is true; no entry older than the latest start is in the
\* log; and a playwright_generate_test that writes its file leaves the session
\* as it was, the file, the text of the response and the count in it being
\* those of that one log.
C17_SessionOperationsAtomic ==
    [][ /\ <<recordedActions, isRecording, recordingName>>'
               # <<recordedActions, isRecording, recordingName>>
            => \/ /\ last'.name = "playwright_record_start"
                  /\ recordedActions' = <<>>
                  /\ isRecording'
                  /\ recordingName' = last'.arguments.name
               \/ /\ last'.name = "playwright_record_stop"
                  /\ ~isRecording'
                  /\ UNCHANGED <<recordedActions, recordingName>>
               \/ /\ last'.name = "playwright_close"
                  /\ ~last'.isError
                  /\ recordedActions' = <<>>
                  /\ ~isRecording'
                  /\ UNCHANGED recordingName
               \/ /\ last'.name \in RecordableTools
                  /\ isRecording
                  /\ Len(recordedActions') = Len(recordedActions) + 1
                  /\ StartsWith(recordedActions', recordedActions)
                  /\ UNCHANGED <<isRecording, recordingName>>
        /\ \A i \in 1..Len(recordedActions') :
               recordedActions'[i].timestamp > started'.at
        /\ (last'.name = "playwright_generate_test" /\ calls' # <<>> /\ ~Threw(calls'))
            => LET path == FilePath(last'.arguments.fileName)
                   code == GenerateDispatch(recordedActions, recordingName,
                                            last'.arguments.framework,
                                            last'.arguments.language)
               IN  /\ UNCHANGED <<recordedActions, isRecording, recordingName>>
                   /\ files'[path] = code
                   /\ last'.text = GeneratedText(path, last'.arguments.framework,
                                                 last'.arguments.language,
                                                 Len(recordedActions), code)
      ]_vars

\* playwright_record_start was served while a navigation was waiting for its
\* page operation and one action of the recording before was in the log: the
\* log is empty, recording is active, the navigation still waits.
C17_Witness ==
    /\ Served("playwright_record_start")
    /\ found.active
    /\ found.count = 1
    /\ started.discarded = 1
    /\ \E r \in Slots : inflight[r].pc = "operation"
    /\ recordedActions = <<>>
    /\ isRecording

\* The tools whose handlers call ensurePage.
PageTools ==
    RecordableTools
    \cup {"playwright_extract_text", "playwright_evaluate", "playwright_get_attribute",
          "playwright_go_back", "playwright_go_forward", "playwright_reload",
          "playwright_set_viewport", "playwright_drag_and_drop",
          "playwright_get_page_info"}

CreationCalls == {"chromium.launch", "browser.newContext", "context.newPage"}

\* C18: with requests served one after the other, while a page is held every
\* tool that uses the page leaves browser, context and page as they are and
\* launches or creates nothing, and only playwright_close lets go of the page;
\* a playwright_close that returns leaves no browser, context or page, and the
\* page tool served next, when its calls succeed, launches a browser and
\* creates a context and a page that no earlier request held.
C18_StatefulPage ==
    [][ /\ (page # NoHandle /\ last'.name \in PageTools)
            => /\ UNCHANGED <<browser, context, page>>
               /\ \A i \in 1..Len(calls') : calls'[i].call \notin CreationCalls
        /\ (page # NoHandle /\ last'.name # "playwright_close") => page' = page
        /\ (clock' # clock /\ last'.name = "playwright_close" /\ ~last'.isError)
            => (browser' = NoHandle /\ context' = NoHandle /\ page' = NoHandle)
        /\ ( /\ Served("playwright_close") /\ ~last.isError
             /\ clock' # clock /\ last'.name \in PageTools /\ ~Threw(calls') )
            => /\ Len(calls') = 4
               /\ calls'[1].call = "chromium.launch"
               /\ calls'[2].call = "browser.newContext"
               /\ calls'[3].call = "context.newPage"
               /\ browser' > clock /\ context' > clock /\ page' > clock
      ]_vars

\* A page tool served right after a playwright_close that closed a page, a
\* context and a browser has launched a browser and created a context and a
\* page.
C18_Witness ==
    /\ last.name \in PageTools
    /\ ~last.isError
    /\ found.closed = 3
    /\ Len(calls) = 4
    /\ clock = 3
    /\ browser = 3
    /\ context = 3
    /\ page = 3

\* The fields an entry of each kind must carry.
RequiredFields(kind) ==
    CASE kind = "navigate" -> {"url"}
      [] kind = "press" -> {"key"}
      [] kind = "screenshot" -> {"value"}
      [] kind \in {"fill", "type", "select"} -> {"selector", "value"}
      [] OTHER -> {"selector"}

\* The values the requests of the model pass for a field.
FieldValues(field) ==
    CASE field = "url" -> Urls
      [] field = "key" -> Keys
      [] field = "selector" -> Selectors
      [] OTHER -> Values \cup ShotNames

\* C19: every entry of the log has one of the eleven kinds, a timestamp, and
\* the fields of its kind, each holding a value a request passed.
C19_EntriesWellFormed ==
    \A i \in 1..Len(recordedActions) :
        LET entry == recordedActions[i]
        IN  /\ "type" \in DOMAIN entry
            /\ entry.type \in AllKinds
            /\ "timestamp" \in DOMAIN entry
            /\ entry.timestamp \in 1..clock
            /\ RequiredFields(entry.type) \subseteq DOMAIN entry
            /\ \A field \in RequiredFields(entry.type) :
                   entry[field] \in FieldValues(field)

\* The log holds a typed text and an unchecked checkbox.
C19_Witness ==
    /\ Len(recordedActions) = 2
    /\ recordedActions[1].type = "type"
    /\ recordedActions[1].value = "v"
    /\ recordedActions[2].type = "uncheck"
    /\ recordedActions[2].selector = "#go"

\* The entry points of a text.
EntryPoints(text) == SelectSeq(text, IsEntryPoint)

\* The identifier made of a session name: every character that is no letter
\* or digit becomes an underscore; "recorded" for the empty name.
IdentifierOf(name) ==
    IF name = <<>> THEN <<"r", "e", "c", "o", "r", "d", "e", "d">>
    ELSE [i \in 1..Len(name) |-> IF name[i] \in AlphaNum THEN name[i] ELSE "_"]

\* The title made of a session name: the name, "recorded test" for the empty
\* name.
TitleOf(name) ==
    IF name = <<>>
    THEN <<"r", "e", "c", "o", "r", "d", "e", "d", " ", "t", "e", "s", "t">>
    ELSE name

HasLine(text, piece) ==
    \E i \in 1..Len(text) : Len(text[i]) > 0 /\ text[i][1] = piece

\* C21: for language python the text is a Python text whatever the framework:
\* its entry point is a def and none of its lines is an import, an entry
\* point or a closing line of the TypeScript/JavaScript renderers; for
\* framework playwright it is the sync_playwright rendering (the import of
\* sync_playwright, the with block, browser.close()), and for selenium and for
\* puppeteer alike it is the Selenium rendering (the import of webdriver, the
\* driver object, driver.quit()), the same text for both.
C21_PythonDispatch ==
    (Served("GenerateDispatch") /\ last.arguments.language = "python")
        => LET text == last.text
               framework == last.arguments.framework
           IN  /\ text # <<>>
               /\ HasLine(text, "def test_")
               /\ \A piece \in {"import { test, expect } from '@playwright/test';",
                                "const { test, expect } = require('@playwright/test');",
                                "import puppeteer from 'puppeteer';",
                                "const puppeteer = require('puppeteer');",
                                "test('", "(async () => {", "});", "})();"} :
                      ~HasLine(text, piece)
               /\ IF framework = "playwright"
                  THEN /\ text[1] = <<"from playwright.sync_api import sync_playwright">>
                       /\ HasLine(text, "    with sync_playwright() as p:")
                       /\ text[Len(text)] = <<"        browser.close()">>
                       /\ ~HasLine(text, "    driver = webdriver.Chrome()")
                       /\ RendersLog(text, recordedActions, "playwright", "python")
                  ELSE /\ text[1] = <<"from selenium import webdriver">>
                       /\ HasLine(text, "    driver = webdriver.Chrome()")
                       /\ text[Len(text)] = <<"    driver.quit()">>
                       /\ ~HasLine(text, "    with sync_playwright() as p:")
                       /\ RendersLog(text, recordedActions, "selenium", "python")
                       /\ text = GenerateDispatch(recordedActions, recordingName,
                                                  "selenium", "python")

\* A recording of a click and a key press was rendered for puppeteer in
\* Python: the Selenium rendering, with the click and without the key press.
C21_Witness ==
    /\ Served("GenerateDispatch")
    /\ last.arguments = [framework |-> "puppeteer", language |-> "python"]
    /\ Len(recordedActions) = 2
    /\ recordedActions[1].type = "click"
    /\ recordedActions[2].type = "press"
    /\ HasLine(last.text, "    driver.find_element(By.CSS_SELECTOR, '")
    /\ Len(Statements(last.text)) = 1

\* The kinds the claim gives each table; the claim names no table for
\* Selenium with TypeScript or JavaScript.
ClaimedTable(framework, language) ==
    IF language # "python" /\ framework = "playwright"
    THEN {"navigate", "click", "fill", "type", "press", "select", "hover", "check",
          "uncheck", "waitForSelector", "screenshot"}
    ELSE IF (language # "python" /\ framework = "puppeteer")
            \/ (language = "python" /\ framework = "playwright")
    THEN {"navigate", "click", "fill", "type", "press", "select", "hover",
          "waitForSelector", "screenshot"}
    ELSE {"navigate", "click", "fill", "type", "waitForSelector", "screenshot"}

\* fill and type share a template for this target.
FillIsType(framework, language) ==
    \/ (language # "python" /\ framework = "puppeteer")
    \/ (language = "python" /\ framework # "playwright")

\* C22: for each target with a table, the statements of the text are one for
\* each log entry whose kind is in the table of the claim, in log order and
\* quoting the entry's values, and none for the other entries; for Playwright
\* with TypeScript or JavaScript there are as many statements as log entries;
\* the statements of a fill and of a type are the same line for Puppeteer and
\* for Python Selenium, and different lines for the other targets.
C22_TemplateTables ==
    ( /\ Served("GenerateDispatch")
      /\ ~(last.arguments.framework = "selenium" /\ last.arguments.language # "python") )
        => LET framework == last.arguments.framework
               language == last.arguments.language
               st == Statements(last.text)
               want == SelectSeq(recordedActions,
                                 LAMBDA a : a.type \in ClaimedTable(framework, language))
           IN  /\ Len(st) = Len(want)
               /\ \A k \in 1..Len(st) : Describes(st[k], want[k])
               /\ (language # "python" /\ framework = "playwright")
                      => Len(st) = Len(recordedActions)
               /\ \A k, l \in 1..Len(st) :
                      (want[k].type = "fill" /\ want[l].type = "type")
                          => (st[k] = st[l] <=> FillIsType(framework, language))

\* A fill, a type and a check were rendered for Puppeteer: two statements,
\* the same line twice.
C22_Witness ==
    /\ Served("GenerateDispatch")
    /\ last.arguments = [framework |-> "puppeteer", language |-> "javascript"]
    /\ Len(recordedActions) = 3
    /\ recordedActions[1].type = "fill"
    /\ recordedActions[2].type = "type"
    /\ recordedActions[3].type = "check"
    /\ Len(Statements(last.text)) = 2
    /\ Statements(last.text)[1] = Statements(last.text)[2]

\* The tools whose handlers never call recordAction.
UnrecordedTools == PageTools \ RecordableTools

C24_CountsAreLogLength ==
    /\ Served("playwright_record_stop")
           => last.text
                  = << <<"Recording stopped. ", Len(recordedActions),
                         " actions recorded. Use playwright_generate_test to create a test script.">> >>
    /\ (Served("playwright_generate_test") /\ ~last.isError /\ recordedActions # <<>>)
           => /\ last.text[5] = <<"Actions: ", Len(recordedActions)>>
              /\ Len(Statements(last.text)) <= Len(recordedActions)

\* A recording of one checkbox action was rendered for Puppeteer: Actions: 1
\* and no statement.
C24_Witness ==
    /\ Served("playwright_generate_test")
    /\ ~last.isError
    /\ last.arguments.framework = "puppeteer"
    /\ last.arguments.language = "typescript"
    /\ Len(recordedActions) = 1
    /\ recordedActions[1].type = "check"
    /\ last.text[5] = <<"Actions: ", 1>>
    /\ Len(Statements(last.text)) = 0

\* The kind of the entry a call of a recordable tool is to leave.
KindOfCall(tool, arguments) ==
    CASE tool = "playwright_navigate" -> "navigate"
      [] tool = "playwright_screenshot" -> "screenshot"
      [] tool = "playwright_click" -> "click"
      [] tool = "playwright_fill" -> "fill"
      [] tool = "playwright_type" -> "type"
      [] tool = "playwright_hover" -> "hover"
      [] tool = "playwright_select" -> "select"
      [] tool = "playwright_wait_for_selector" -> "waitForSelector"
      [] tool = "playwright_press_key" -> "press"
      [] tool = "playwright_checkbox" -> IF arguments.checked THEN "check" ELSE "uncheck"

\* C25: a recordable tool that returns while recording is active leaves the
\* log one entry longer: the entries before are as they were, and the new last
\* entry has the kind of the tool (for playwright_checkbox check when checked
\* is true and uncheck when it is false) and the time of the call.
C25_OneEntryOfTheToolsKind ==
    [][ ( /\ clock' # clock
          /\ last'.name \in RecordableTools
          /\ ~last'.isError
          /\ isRecording )
            => /\ Len(recordedActions') = Len(recordedActions) + 1
               /\ StartsWith(recordedActions', recordedActions)
               /\ recordedActions'[Len(recordedActions')].type
                      = KindOfCall(last'.name, last'.arguments)
               /\ recordedActions'[Len(recordedActions')].timestamp = clock'
      ]_vars

\* playwright_checkbox with checked false has returned while recording was
\* active with one action in the log: the second entry is an uncheck.
C25_Witness ==
    /\ Served("playwright_checkbox")
    /\ ~last.isError
    /\ ~last.arguments.checked
    /\ found.active
    /\ found.count = 1
    /\ Len(recordedActions) = 2
    /\ recordedActions[2].type = "uncheck"

\* C26: with requests overlapping, the step in which the browser operation of
\* a recordable tool completes appends the action exactly when recording is
\* active in that step, whatever the session was when the request arrived; the
\* log it is appended to is that of the latest playwright_record_start, whose
\* entries are all later than the start. A primitive whose operation completes
\* after playwright_record_stop or a successful playwright_close leaves the
\* log as it was.
C26_DecidedAtCompletion ==
    [][ ( /\ clock' # clock
          /\ last'.name \in RecordableTools
          /\ ~last'.isError )
            => /\ recordedActions'
                      = IF isRecording
                        THEN Append(recordedActions,
                                    NavigateAction(last'.arguments.url)
                                        @@ [timestamp |-> clock'])
                        ELSE recordedActions
               /\ \A i \in 1..Len(recordedActions') :
                      recordedActions'[i].timestamp > started.at
      ]_vars

\* The page.goto of a playwright_navigate has completed in the step right
\* after a playwright_record_start, so the request had arrived before the
\* start, when nothing was recording (the start is the first one): its action
\* is the one entry of the new session.
C26_Witness ==
    /\ Served("playwright_navigate")
    /\ ~last.isError
    /\ isRecording
    /\ found.active
    /\ found.count = 0
    /\ started.at = clock - 1
    /\ started.discarded = 0
    /\ Len(recordedActions) = 1
    /\ recordedActions[1].timestamp = started.at + 1

\* The latest request was a playwright_generate_test that wrote its file.
Wrote(response, cs) ==
    /\ response.name = "playwright_generate_test"
    /\ ~response.isError
    /\ cs # <<>>

\* C27: playwright_generate_test leaves recordedActions, isRecording and
\* recordingName as they were; with a log that is not empty and no failure of
\* the file system it writes the file and reports success whether or not
\* recording is active; the file named holds the text and no other file
\* changes; and a generate request that follows one with the same framework
\* and language writes the same text, leaving the files and the response as
\* the first left them when the fileName is the same too.
C27_GenerateLeavesSession ==
    [][ ( /\ clock' # clock
          /\ last'.name = "playwright_generate_test" )
            => LET filePath == FilePath(last'.arguments.fileName)
               IN  /\ UNCHANGED <<recordedActions, isRecording, recordingName>>
                   /\ ( Len(recordedActions) > 0 /\ ~Threw(calls') )
                          => /\ Wrote(last', calls')
                             /\ last'.text[1] = <<"Test generated successfully!">>
                   /\ Wrote(last', calls')
                          => /\ DOMAIN files' = DOMAIN files \cup {filePath}
                             /\ files'[filePath] = calls'[Len(calls')].data
                             /\ \A f \in DOMAIN files :
                                    f # filePath => files'[f] = files[f]
                   /\ ( /\ Wrote(last, calls)
                        /\ Wrote(last', calls')
                        /\ last'.arguments.framework = last.arguments.framework
                        /\ last'.arguments.language = last.arguments.language )
                          => /\ calls'[Len(calls')].data = calls[Len(calls)].data
                             /\ last'.arguments.fileName = last.arguments.fileName
                                    => /\ files' = files
                                       /\ last'.text = last.text
      ]_vars

\* A Playwright test has been generated while recording was active with one
\* action in the log, right after a generate request with the same framework
\* and language that wrote its file: the one file holds the text just written.
C27_Witness ==
    /\ Wrote(last, calls)
    /\ isRecording
    /\ found.active
    /\ found.count = 1
    /\ last.arguments.framework = "playwright"
    /\ found.wrote = <<last.arguments.framework, last.arguments.language>>
    /\ DOMAIN files = {FilePath(last.arguments.fileName)}
    /\ files[FilePath(last.arguments.fileName)] = calls[Len(calls)].data
    /\ Len(recordedActions) = 1

\* C28: recordingName is empty as long as no playwright_record_start has been
\* served, and a step that changes it is a playwright_record_start, which sets
\* it to the name of the request; every other request leaves it as it was, a
\* playwright_close that returns included, which empties the log.
C28_OnlyStartNames ==
    [][ /\ started.at = 0 => recordingName = <<>>
        /\ recordingName' # recordingName
               => /\ last'.name = "playwright_record_start"
                  /\ recordingName' = last'.arguments.name
        /\ ( clock' # clock /\ last'.name # "playwright_record_start" )
               => recordingName' = recordingName
        /\ ( clock' # clock /\ last'.name = "playwright_close" /\ ~last'.isError )
               => recordedActions' = <<>> /\ recordingName' = recordingName
      ]_vars

\* A playwright_close has returned that found recording "s1" active with one
\* action in the log: the log is empty and the name is still "s1".
C28_Witness ==
    /\ Served("playwright_close")
    /\ ~last.isError
    /\ found.active
    /\ found.count = 1
    /\ recordedActions = <<>>
    /\ ~isRecording
    /\ recordingName = <<"s", "1">>

\* The call `call` is among cs and returned.
Completed(cs, call) == \E i \in 1..Len(cs) : cs[i].call = call /\ ~cs[i].threw

\* C29: a playwright_close in which the close of the page, of the context or
\* of the browser throws answers with an error and leaves isRecording and
\* recordedActions as they were; each handle whose close returned is let go,
\* and each handle whose close threw or was not reached is held as before.
C29_FailedCloseKeepsSession ==
    [][ ( /\ clock' # clock
          /\ last'.name = "playwright_close" )
            => /\ last'.isError <=> Threw(calls')
               /\ last'.isError
                      => /\ UNCHANGED <<isRecording, recordedActions>>
                         /\ page' = IF Completed(calls', "page.close")
                                    THEN NoHandle ELSE page
                         /\ context' = IF Completed(calls', "context.close")
                                       THEN NoHandle ELSE context
                         /\ browser' = IF Completed(calls', "browser.close")
                                       THEN NoHandle ELSE browser
                         /\ browser' # NoHandle
      ]_vars

\* A playwright_close has failed in context.close while recording was active
\* with one action in the log: the page is let go, the context and the browser
\* are held, recording is active and the log has its entry.
C29_Witness ==
    /\ Served("playwright_close")
    /\ last.isError
    /\ Len(calls) = 2
    /\ calls[2] = [call |-> "context.close", threw |-> TRUE]
    /\ page = NoHandle
    /\ context # NoHandle
    /\ browser # NoHandle
    /\ found.active
    /\ found.count = 1
    /\ isRecording
    /\ Len(recordedActions) = 1

\* C30: in every state, with requests overlapping each other and
\* playwright_close, a page is held only with a context and a context only
\* with a browser, and the page held was made from the context held.
C30_HandlesNested ==
    /\ page # NoHandle => context # NoHandle
    /\ context # NoHandle => browser # NoHandle
    /\ page # NoHandle => owner.page = context

\* C31: since the latest call of playwright_close at most one browser was
\* launched, at most one context and at most one page were created, whatever
\* the number of requests that arrived before the first launch returned; and
\* every browser that runs is the one the BrowserManager holds.
C31_OneOfEach ==
    /\ opened.browser <= 1
    /\ opened.context <= 1
    /\ opened.page <= 1
    /\ \A b \in opened.running : b = browser

\* The names of the tools the switch has a case for, as far as the requests
\* of this model go.
KnownTools == PageTools \cup {"playwright_record_start", "playwright_record_stop",
                              "playwright_generate_test", "playwright_close"}

\* The request answered by `response` names no tool, or its arguments are
\* not what the schema of its tool asks for.
Invalid(response) ==
    \/ response.name \notin KnownTools
    \/ /\ response.name = "playwright_navigate"
       /\ response.arguments.url \in NotUrls
    \/ /\ response.name = "playwright_click"
       /\ "selector" \notin DOMAIN response.arguments
    \/ /\ response.name = "playwright_record_start"
       /\ "name" \notin DOMAIN response.arguments
    \/ /\ response.name = "playwright_generate_test"
       /\ response.arguments.framework \notin Frameworks

\* C32: a request whose tool is unknown or whose arguments fail the schema is
\* answered with an error, makes no browser or file-system call, and leaves
\* the session, the fields of the BrowserManager and the files as they were:
\* a navigate to an invalid URL while recording is active adds nothing to the
\* log.
C32_InvalidRequestChangesNothing ==
    [][ ( clock' # clock /\ Invalid(last') )
            => /\ last'.isError
               /\ calls' = <<>>
               /\ UNCHANGED <<recordedActions, isRecording, recordingName,
                              browser, context, page, dirExists, files>>
      ]_vars

\* A playwright_navigate to "not a url" has been answered while recording was
\* active with one action in the log and the page held: the log still has its
\* one entry and the page is the same.
C32_Witness ==
    /\ Served("playwright_navigate")
    /\ last.arguments.url \in NotUrls
    /\ last.isError
    /\ calls = <<>>
    /\ found.active
    /\ found.count = 1
    /\ isRecording
    /\ Len(recordedActions) = 1
    /\ page # NoHandle

====
